---- MODULE Spec2Model ----
(***************************************************************************)
(* Site lifecycle orchestrator of jekyll-studio-api.                        *)
(*                                                                         *)
(* JekyllManager (src/lib/jekyll-manager.ts) keeps a Map of site objects,  *)
(* drives docker for build / serve / stop and emits lifecycle events.      *)
(* Every API route module constructs its own JekyllManager; the            *)
(* WebSocketManager (src/pages/api/websocket.ts) listens to the instance   *)
(* of its own module.                                                      *)
(*                                                                         *)
(* An async method is two or more steps: the synchronous prefix up to its  *)
(* first await on the external tool, and the continuation that runs when   *)
(* the tool has answered.  Calls in flight live in the slots of `calls`.   *)
(***************************************************************************)
EXTENDS Integers, Sequences, FiniteSets, TLC

\* ---------------------------------------------------------------- bounds
MaxSites == 2
MaxCalls == 2
MaxWatchers == 2
MaxOps == 6
MaxOverlapOps == 5
MaxConns == 2
MaxEntries == 2

\* ------------------------------------------------------------- constants
StartPort == 4000
MinPort == 3000
MaxPort == 9999

Ids == 1..MaxSites
Slots == 1..MaxCalls
Conns == 1..MaxConns

\* One JekyllManager instance per module that runs `new JekyllManager()`.
Managers == {"create", "build", "serve", "site", "files", "ws"}
\* The instance the WebSocketManager registers its listeners on.
WsManager == "ws"
\* The instance driven through the public methods of the class.
ApiManager == "ws"

\* Names a caller or the structure document supplies; <<"site", id>> is the
\* fallback `site-${siteId}`.
Names == {<<"demo", 0>>}
NoName == <<"", 0>>
\* port argument of serveSite: 0 is "not given" (falsy in `port || ...`)
PortInputs == {0, 4000}
\* a port argument below the range the serve route accepts
LowPort == 80
NoPort == 0

VARIABLES
  sites,     \* [Managers -> SUBSET Ids]: keys of each instance's Map
  obj,       \* [Ids -> site object]: the JekyllSite objects (shared by reference)
  nextId,    \* number of ids issued (uuidv4 never repeats)
  calls,     \* [Slots -> call]: async calls in flight
  procs,     \* set of [id, port]: preview containers started and not stopped
  watchers,  \* [Ids -> [armed, leaked]]: open chokidar watchers per site
  disk,      \* set of names whose project directory exists
  emitted,   \* events emitted by the last step, in order
  returned,  \* what the last step returned to its caller
  served,    \* [Ids -> port]: port of the last successful Serve, 0 after a Stop
  stopped,   \* [Ids -> BOOLEAN]: a Stop of the serving site succeeded, no Serve since
  deleted,   \* ids whose record deleteSite removed
  created,   \* ids a route-level Create answered 201 for
  ops,       \* number of calls and requests issued so far
  clients,   \* connections in WebSocketManager.clients
  conn,      \* [Conns -> [state, isAlive, subscribedSites]]: the sockets
  sent,      \* what sendToClient was called with in the last step, in order
  received,  \* the client message or socket event the last step handled
  ticks,     \* [Conns -> Nat]: heartbeat ticks since the connection's last pong
  server,    \* the WebSocketServer, the heartbeat interval, sockets close() was called on
  gen,       \* the generateAndParse request of a GeminiService
  struct,    \* argument and result of validateAndCleanStructure
  written,   \* [AllNames -> paths]: files updateFile wrote below the directory
  answer     \* the last response of the files handler

vars == <<sites, obj, nextId, calls, procs, watchers, disk, emitted, returned,
          served, stopped, deleted, created, ops,
          clients, conn, sent, received, ticks, server,
          gen, struct, written, answer>>

\* ------------------------------------------------------------ data shapes
NoObj == [name |-> NoName, status |-> "none", port |-> NoPort,
          lastBuilt |-> FALSE, mgr |-> "none"]

\* A path below a site's directory: directory part, file name, and whether
\* white space surrounds it.  The empty path stands for a missing filePath.
Path(dir, base, pad) == [dir |-> dir, base |-> base, pad |-> pad]

NoPath == Path("", "", FALSE)

Idle == [op |-> "idle", h |-> "none", m |-> "none", id |-> 0, stage |-> "none",
         port |-> NoPort, pre |-> "none", prior |-> NoPort, name |-> NoName,
         path |-> NoPath]

NoRet == [op |-> "none", h |-> "none", id |-> 0, res |-> "none", port |-> NoPort,
          pre |-> "none", prior |-> NoPort, tool |-> FALSE]

Ret(op, h, id, res) == [NoRet EXCEPT !.op = op, !.h = h, !.id = id, !.res = res]

Event(type, id, m, h) == [type |-> type, id |-> id, mgr |-> m, h |-> h]

\* The fields of a new WebSocketManager (websocket.ts 24-26): no server
\* (`wss = null`) and no interval of the heartbeat; closeSent are the sockets on
\* which cleanup called close() and whose 'close' event has not come yet.
NoServer == [wss |-> "none", heartbeatInterval |-> FALSE, closeSent |-> {}]

\* a socket that has not connected yet
NoConn == [state |-> "none", isAlive |-> FALSE, subscribedSites |-> {}]

NoInput == [type |-> "none", c |-> 0, siteId |-> 0]

Input(type, c, siteId) == [type |-> type, c |-> c, siteId |-> siteId]

\* no generateAndParse request yet
NoGen == [variant |-> "none", state |-> "idle", attempt |-> 0, invoked |-> 0,
          log |-> <<>>]

\* the four list fields of a structure document; present is FALSE for a field
\* the parsed JSON does not have
NoField == [present |-> FALSE, items |-> <<>>]
NoFields == [layouts |-> NoField, includes |-> NoField, posts |-> NoField,
             pages |-> NoField]
NoArrays == [layouts |-> <<>>, includes |-> <<>>, posts |-> <<>>, pages |-> <<>>]

\* validateAndCleanStructure not called
NoStruct == [variant |-> "none", shop |-> FALSE, called |-> FALSE,
             input |-> NoFields, output |-> NoArrays]

\* no request to the files handler yet
NoAnswer == [method |-> "none", id |-> 0, path |-> NoPath, status |-> 0]

\* the names a project directory can have
AllNames == Names \cup {<<"site", i>> : i \in Ids}

\* JekyllManager.getSite
getSite(m, id) == IF id \in sites[m] THEN obj[id] ELSE NoObj

Known(m, id) == id \in sites[m]

\* ------------------------------------------------------------ pure helpers
\* the while loop of findAvailablePort
RECURSIVE NextFree(_, _)
NextFree(port, usedPorts) ==
  IF port \in usedPorts THEN NextFree(port + 1, usedPorts) ELSE port

\* JekyllManager.findAvailablePort: ports of all records of the Map, whatever
\* their status
findAvailablePort(m) ==
  LET usedPorts == {obj[i].port : i \in {j \in sites[m] : obj[j].port # NoPort}}
  IN NextFree(StartPort, usedPorts)

\* `port || await this.findAvailablePort()`
ChoosePort(m, port) == IF port # NoPort THEN port ELSE findAvailablePort(m)

\* siteName = structure.name || siteData.name || `site-${siteId}`
SiteName(structName, dataName, id) ==
  IF structName # NoName THEN structName
  ELSE IF dataName # NoName THEN dataName
  ELSE <<"site", id>>

\* The listeners that setupFileWatcher registered with once('siteStopped') on
\* instance m all run, and are all removed, at the first siteStopped of any site:
\* the one whose site matches closes its watcher, the others stay open for good.
OnSiteStopped(w, o, m, id) ==
  [j \in Ids |->
     IF o[j].mgr # m THEN w[j]
     ELSE IF j = id THEN [armed |-> 0, leaked |-> w[j].leaked]
     ELSE [armed |-> 0, leaked |-> w[j].leaked + w[j].armed]]

OpenWatchers(id) == watchers[id].armed + watchers[id].leaked

\* a new call takes the first free slot
FreeSlot(c) == calls[c] = Idle /\ \A d \in 1..(c - 1) : calls[d] # Idle

\* ------------------------------------------------------------------ Init
\* everything but the argument of validateAndCleanStructure
Constructed ==
  /\ sites = [m \in Managers |-> {}]
  /\ obj = [i \in Ids |-> NoObj]
  /\ nextId = 0
  /\ calls = [c \in Slots |-> Idle]
  /\ procs = {}
  /\ watchers = [i \in Ids |-> [armed |-> 0, leaked |-> 0]]
  /\ disk = {}
  /\ emitted = <<>>
  /\ returned = NoRet
  /\ served = [i \in Ids |-> NoPort]
  /\ stopped = [i \in Ids |-> FALSE]
  /\ deleted = {}
  /\ created = {}
  /\ ops = 0
  /\ clients = {}
  /\ conn = [c \in Conns |-> NoConn]
  /\ sent = <<>>
  /\ received = NoInput
  /\ ticks = [c \in Conns |-> 0]
  /\ server = NoServer
  /\ gen = NoGen
  /\ written = [n \in AllNames |-> {}]
  /\ answer = NoAnswer

Init == Constructed /\ struct = NoStruct

\* --------------------------------------------------------- state updates
SetStatus(o, id, st) == [o EXCEPT ![id].status = st]

\* this.sites.set(siteId, site): puts the object back under its id, also when
\* the key was deleted in between
MapSet(s, m, id) == [s EXCEPT ![m] = @ \cup {id}]

Call(op, h, m, id, stage) ==
  [Idle EXCEPT !.op = op, !.h = h, !.m = m, !.id = id, !.stage = stage]

ServeInFlight(id) == \E c \in Slots : calls[c].op = "serve" /\ calls[c].id = id

\* a Stop of id was issued: Serve calls of id in flight no longer count as
\* "with no Stop in between"
ForgetPrior(cs, id) ==
  [c \in Slots |-> IF cs[c].op = "serve" /\ cs[c].id = id
                   THEN [cs[c] EXCEPT !.prior = NoPort] ELSE cs[c]]

\* ------------------------------------------------------------ createSite
\* lines 44-58: new object in 'creating', sites.set, emit, then the awaits on
\* the file system begin
createSiteStart(c, h, m, structName, dataName) ==
  LET id == nextId + 1 IN
  /\ nextId < MaxSites
  /\ nextId' = id
  /\ obj' = [obj EXCEPT ![id] = [name |-> SiteName(structName, dataName, id),
                                  status |-> "creating",
                                  port |-> NoPort, lastBuilt |-> FALSE, mgr |-> m]]
  /\ sites' = MapSet(sites, m, id)
  /\ emitted' = <<Event("siteStatusChanged", id, m, h)>>
  /\ calls' = [calls EXCEPT ![c] = Call("create", h, m, id, "ensureDir")]
  /\ returned' = NoRet
  /\ UNCHANGED <<procs, watchers, disk, served, stopped, deleted, created,
                 written, answer>>

createSite(c, structName, dataName) ==
  /\ FreeSlot(c)
  /\ createSiteStart(c, "api", ApiManager, structName, dataName)

\* lines 76-80: the catch sets 'error', puts the record back, emits and
\* rethrows
createSiteFailed(c) ==
  LET k == calls[c] IN
  /\ obj' = SetStatus(obj, k.id, "error")
  /\ sites' = MapSet(sites, k.m, k.id)
  /\ emitted' = <<Event("siteStatusChanged", k.id, k.m, k.h)>>
  /\ calls' = [calls EXCEPT ![c] = Idle]
  /\ returned' = Ret("create", k.h, k.id, "error")

\* line 62: fs.ensureDir(sitePath) has made the directory and the writes of
\* createJekyllStructure begin, or it has rejected and left no directory
createSiteEnsureDir(c, ok) ==
  LET k == calls[c] IN
  /\ k.op = "create" /\ k.stage = "ensureDir"
  /\ IF ok
     THEN /\ disk' = disk \cup {obj[k.id].name}
          /\ calls' = [calls EXCEPT ![c].stage = "fs"]
          /\ emitted' = <<>>
          /\ returned' = NoRet
          /\ UNCHANGED <<sites, obj>>
     ELSE /\ createSiteFailed(c)
          /\ UNCHANGED disk
  /\ UNCHANGED <<nextId, procs, watchers, served, stopped, deleted, created,
                 written, answer>>

\* lines 316, 327, 339, 359: an fs.ensureDir of a subdirectory (_layouts,
\* _includes, _posts, assets) finds the site directory removed in the
\* meantime and makes it again
createJekyllStructureEnsureDir(c) ==
  LET k == calls[c] IN
  /\ k.op = "create" /\ k.stage = "fs"
  /\ obj[k.id].name \notin disk
  /\ disk' = disk \cup {obj[k.id].name}
  /\ emitted' = <<>>
  /\ returned' = NoRet
  /\ UNCHANGED <<sites, obj, nextId, calls, procs, watchers, served, stopped,
                 deleted, created, written, answer>>

\* lines 65-75 (ok: createJekyllStructure and initGitRepo, which swallows its
\* errors, are through) and 76-81 (a write of createJekyllStructure threw); in
\* the create route the handler then goes on to buildSite (part_003 line 74)
createSiteDone(c, ok) ==
  LET k == calls[c]
      id == k.id
      m == k.m
      h == k.h
  IN
  /\ k.op = "create" /\ k.stage = "fs"
  /\ IF ok
     THEN /\ sites' = MapSet(sites, m, id)
          /\ IF h = "create"
             THEN /\ obj' = SetStatus(obj, id, "building")
                  /\ emitted' = <<Event("siteStatusChanged", id, m, h),
                                  Event("siteCreated", id, m, h),
                                  Event("siteStatusChanged", id, m, h)>>
                  /\ calls' = [calls EXCEPT ![c] = Call("build", h, m, id, "exec")]
                  /\ returned' = NoRet
             ELSE /\ obj' = SetStatus(obj, id, "ready")
                  /\ emitted' = <<Event("siteStatusChanged", id, m, h),
                                  Event("siteCreated", id, m, h)>>
                  /\ calls' = [calls EXCEPT ![c] = Idle]
                  /\ returned' = Ret("create", h, id, "ok")
     ELSE createSiteFailed(c)
  /\ UNCHANGED <<nextId, procs, watchers, disk, served, stopped, deleted, created,
                 written, answer>>

\* ------------------------------------------------------------- buildSite
\* lines 88-95 for a known id
buildSiteStart(c, h, m, id) ==
  /\ obj' = SetStatus(obj, id, "building")
  /\ sites' = MapSet(sites, m, id)
  /\ emitted' = <<Event("siteStatusChanged", id, m, h)>>
  /\ calls' = [calls EXCEPT ![c] = Call("build", h, m, id, "exec")]
  /\ returned' = NoRet
  /\ UNCHANGED <<nextId, procs, watchers, disk, served, stopped, deleted, created,
                 written, answer>>

\* a lookup that announces the call with an event before it throws
NotFoundAfterEmit(op, h, id) ==
  /\ returned' = Ret(op, h, id, "NotFound")
  /\ emitted' = <<Event("siteStatusChanged", id, ApiManager, h)>>
  /\ UNCHANGED <<sites, obj, nextId, calls, procs, watchers, disk,
                 served, stopped, deleted, created, written, answer>>

\* 'Site not found' thrown before anything is touched
NotFound(op, h, id) ==
  /\ returned' = Ret(op, h, id, "NotFound")
  /\ emitted' = <<>>
  /\ UNCHANGED <<sites, obj, nextId, calls, procs, watchers, disk,
                 served, stopped, deleted, created, written, answer>>

buildSite(c, id) ==
  /\ FreeSlot(c)
  /\ IF Known(ApiManager, id)
     THEN buildSiteStart(c, "api", ApiManager, id)
     ELSE NotFound("build", "api", id)

\* buildSiteDone with a catch that sets 'error', emits and rethrows instead of
\* returning the failed result
buildSiteDoneRethrows(c, ok) ==
  LET k == calls[c]
      id == k.id
      m == k.m
      h == k.h
  IN
  /\ k.op = "build" /\ k.stage = "exec"
  /\ obj' = IF ok THEN [obj EXCEPT ![id].status = "ready", ![id].lastBuilt = TRUE]
                  ELSE SetStatus(obj, id, "error")
  /\ sites' = MapSet(sites, m, id)
  /\ emitted' = IF ok THEN <<Event("siteStatusChanged", id, m, h),
                             Event("siteBuilt", id, m, h)>>
                      ELSE <<Event("siteStatusChanged", id, m, h)>>
  /\ calls' = [calls EXCEPT ![c] = Idle]
  /\ returned' = IF h = "create"
                 THEN [Ret("create", h, id, IF ok THEN "ok" ELSE "error")
                        EXCEPT !.tool = ok]
                 ELSE [Ret("build", h, id, IF ok THEN "ok" ELSE "error")
                        EXCEPT !.tool = ok]
  /\ created' = IF h = "create" /\ ok THEN created \cup {id} ELSE created
  /\ UNCHANGED <<nextId, procs, watchers, disk, served, stopped, deleted,
                 written, answer>>

\* buildSiteDone with lastBuilt stamped when the tool has answered, before its
\* outcome is looked at
buildSiteDoneStampsAlways(c, ok) ==
  LET k == calls[c]
      id == k.id
      m == k.m
      h == k.h
  IN
  /\ k.op = "build" /\ k.stage = "exec"
  /\ obj' = [obj EXCEPT ![id].status = IF ok THEN "ready" ELSE "error",
                        ![id].lastBuilt = TRUE]
  /\ sites' = MapSet(sites, m, id)
  /\ emitted' = IF ok THEN <<Event("siteStatusChanged", id, m, h),
                             Event("siteBuilt", id, m, h)>>
                      ELSE <<Event("siteStatusChanged", id, m, h)>>
  /\ calls' = [calls EXCEPT ![c] = Idle]
  /\ returned' = IF h \in {"create", "put"}
                 THEN [Ret(h, h, id, "ok") EXCEPT !.tool = ok]
                 ELSE [Ret("build", h, id, IF ok THEN "ok" ELSE "failed")
                        EXCEPT !.tool = ok]
  /\ created' = IF h = "create" THEN created \cup {id} ELSE created
  /\ UNCHANGED <<nextId, procs, watchers, disk, served, stopped, deleted,
                 written, answer>>

\* buildSiteDone with a catch that returns the failed result and leaves the
\* status alone
buildSiteDoneLeavesBuilding(c, ok) ==
  LET k == calls[c]
      id == k.id
      m == k.m
      h == k.h
  IN
  /\ k.op = "build" /\ k.stage = "exec"
  /\ obj' = IF ok THEN [obj EXCEPT ![id].status = "ready", ![id].lastBuilt = TRUE]
                  ELSE obj
  /\ sites' = MapSet(sites, m, id)
  /\ emitted' = IF ok THEN <<Event("siteStatusChanged", id, m, h),
                             Event("siteBuilt", id, m, h)>>
                      ELSE <<>>
  /\ calls' = [calls EXCEPT ![c] = Idle]
  /\ returned' = IF h \in {"create", "put"}
                 THEN [Ret(h, h, id, "ok") EXCEPT !.tool = ok]
                 ELSE [Ret("build", h, id, IF ok THEN "ok" ELSE "failed")
                        EXCEPT !.tool = ok]
  /\ created' = IF h = "create" THEN created \cup {id} ELSE created
  /\ UNCHANGED <<nextId, procs, watchers, disk, served, stopped, deleted,
                 written, answer>>

\* lines 107-118 (exit 0) and 119-129 (non-zero exit, throw or timeout): the
\* result is returned as data either way.  The create route answers 201 with
\* it, the PUT handler of the site route answers 200 whatever it is.
buildSiteDone(c, ok) ==
  LET k == calls[c]
      id == k.id
      m == k.m
      h == k.h
  IN
  /\ k.op = "build" /\ k.stage = "exec"
  /\ obj' = IF ok THEN [obj EXCEPT ![id].status = "ready", ![id].lastBuilt = TRUE]
                  ELSE SetStatus(obj, id, "error")
  /\ sites' = MapSet(sites, m, id)
  /\ emitted' = IF ok THEN <<Event("siteStatusChanged", id, m, h),
                             Event("siteBuilt", id, m, h)>>
                      ELSE <<Event("siteStatusChanged", id, m, h)>>
  /\ calls' = [calls EXCEPT ![c] = Idle]
  /\ returned' = IF h \in {"create", "put"}
                 THEN [Ret(h, h, id, "ok") EXCEPT !.tool = ok]
                 ELSE [Ret("build", h, id, IF ok THEN "ok" ELSE "failed")
                        EXCEPT !.tool = ok]
  /\ created' = IF h = "create" THEN created \cup {id} ELSE created
  /\ UNCHANGED <<nextId, procs, watchers, disk, served, stopped, deleted,
                 written, answer>>

\* ------------------------------------------------------------- serveSite
\* lines 137-150 for a known id: the port is fixed and `docker compose run -d -p`
\* is started; nothing in the registry changes before the tool answers
serveSiteStart(c, h, m, id, port) ==
  /\ OpenWatchers(id) < MaxWatchers
  /\ calls' = [calls EXCEPT ![c] = [Call("serve", h, m, id, "exec") EXCEPT
                                      !.port = ChoosePort(m, port),
                                      !.pre = obj[id].status,
                                      !.prior = served[id]]]
  /\ stopped' = [stopped EXCEPT ![id] = FALSE]
  /\ emitted' = <<>>
  /\ returned' = NoRet
  /\ UNCHANGED <<sites, obj, nextId, procs, watchers, disk, served, deleted, created,
                 written, answer>>

serveSite(c, id, port) ==
  /\ FreeSlot(c)
  /\ IF Known(ApiManager, id)
     THEN serveSiteStart(c, "api", ApiManager, id, port)
     ELSE NotFound("serve", "api", id)

\* serveSiteDone without the call of setupFileWatcher
serveSiteDoneNoWatcher(c, ok) ==
  LET k == calls[c]
      id == k.id
      m == k.m
      h == k.h
  IN
  /\ k.op = "serve" /\ k.stage = "exec"
  /\ sites' = MapSet(sites, m, id)
  /\ calls' = [calls EXCEPT ![c] = Idle]
  /\ IF ok
     THEN /\ obj' = [obj EXCEPT ![id].status = "serving", ![id].port = k.port]
          /\ procs' = procs \cup {[id |-> id, port |-> k.port]}
          /\ emitted' = <<Event("siteStatusChanged", id, m, h),
                          Event("siteServing", id, m, h)>>
          /\ served' = [served EXCEPT ![id] = k.port]
          /\ returned' = [Ret("serve", h, id, "ok") EXCEPT
                            !.port = k.port, !.pre = k.pre, !.prior = k.prior,
                            !.tool = TRUE]
          /\ UNCHANGED watchers
     ELSE /\ obj' = SetStatus(obj, id, "error")
          /\ emitted' = <<Event("siteStatusChanged", id, m, h)>>
          /\ returned' = [Ret("serve", h, id, "error") EXCEPT
                            !.pre = k.pre, !.prior = k.prior]
          /\ UNCHANGED <<procs, watchers, served>>
  /\ UNCHANGED <<nextId, disk, stopped, deleted, created, written, answer>>

\* serveSiteDone with site.port assigned before the outcome of the tool is known
serveSiteDoneStoresPortFirst(c, ok) ==
  LET k == calls[c]
      id == k.id
      m == k.m
      h == k.h
  IN
  /\ k.op = "serve" /\ k.stage = "exec"
  /\ sites' = MapSet(sites, m, id)
  /\ calls' = [calls EXCEPT ![c] = Idle]
  /\ IF ok
     THEN /\ obj' = [obj EXCEPT ![id].status = "serving", ![id].port = k.port]
          /\ procs' = procs \cup {[id |-> id, port |-> k.port]}
          /\ emitted' = <<Event("siteStatusChanged", id, m, h),
                          Event("siteServing", id, m, h)>>
          /\ watchers' = [watchers EXCEPT ![id].armed = @ + 1]
          /\ served' = [served EXCEPT ![id] = k.port]
          /\ returned' = [Ret("serve", h, id, "ok") EXCEPT
                            !.port = k.port, !.pre = k.pre, !.prior = k.prior,
                            !.tool = TRUE]
     ELSE /\ obj' = [obj EXCEPT ![id].status = "error", ![id].port = k.port]
          /\ emitted' = <<Event("siteStatusChanged", id, m, h)>>
          /\ returned' = [Ret("serve", h, id, "error") EXCEPT
                            !.pre = k.pre, !.prior = k.prior]
          /\ UNCHANGED <<procs, watchers, served>>
  /\ UNCHANGED <<nextId, disk, stopped, deleted, created, written, answer>>

\* lines 152-161 (started) and 162-166 (the tool failed: status 'error', the
\* port field is left as it was, the error is thrown on)
serveSiteDone(c, ok) ==
  LET k == calls[c]
      id == k.id
      m == k.m
      h == k.h
  IN
  /\ k.op = "serve" /\ k.stage = "exec"
  /\ sites' = MapSet(sites, m, id)
  /\ calls' = [calls EXCEPT ![c] = Idle]
  /\ IF ok
     THEN /\ obj' = [obj EXCEPT ![id].status = "serving", ![id].port = k.port]
          /\ procs' = procs \cup {[id |-> id, port |-> k.port]}
          /\ emitted' = <<Event("siteStatusChanged", id, m, h),
                          Event("siteServing", id, m, h)>>
          /\ watchers' = [watchers EXCEPT ![id].armed = @ + 1]
          /\ served' = [served EXCEPT ![id] = k.port]
          /\ returned' = [Ret("serve", h, id, "ok") EXCEPT
                            !.port = k.port, !.pre = k.pre, !.prior = k.prior,
                            !.tool = TRUE]
     ELSE /\ obj' = SetStatus(obj, id, "error")
          /\ emitted' = <<Event("siteStatusChanged", id, m, h)>>
          /\ returned' = [Ret("serve", h, id, "error") EXCEPT
                            !.pre = k.pre, !.prior = k.prior]
          /\ UNCHANGED <<procs, watchers, served>>
  /\ UNCHANGED <<nextId, disk, stopped, deleted, created, written, answer>>

\* -------------------------------------------------------------- stopSite
\* lines 174-183 for a known id: `docker compose down` is started whatever the
\* status of the site
stopSiteStart(c, h, m, id, op, stage) ==
  /\ calls' = [ForgetPrior(calls, id) EXCEPT
                 ![c] = [Call(op, h, m, id, stage) EXCEPT !.pre = obj[id].status]]
  /\ served' = [served EXCEPT ![id] = NoPort]
  /\ emitted' = <<>>
  /\ returned' = NoRet
  /\ UNCHANGED <<sites, obj, nextId, procs, watchers, disk, stopped, deleted, created,
                 written, answer>>

stopSite(c, id) ==
  /\ FreeSlot(c)
  /\ IF Known(ApiManager, id)
     THEN stopSiteStart(c, "api", ApiManager, id, "stop", "exec")
     ELSE NotFound("stop", "api", id)

\* lines 185-189: `docker compose down` succeeded.  It names no site: it stops
\* every container of the compose project.
stopEffect(k) ==
  /\ procs' = {}
  /\ obj' = [obj EXCEPT ![k.id].status = "ready", ![k.id].port = NoPort]
  /\ sites' = MapSet(sites, k.m, k.id)
  /\ emitted' = <<Event("siteStatusChanged", k.id, k.m, k.h),
                  Event("siteStopped", k.id, k.m, k.h)>>
  /\ watchers' = OnSiteStopped(watchers, obj, k.m, k.id)
  /\ stopped' = [stopped EXCEPT
                   ![k.id] = k.pre = "serving" /\ ~ServeInFlight(k.id)]

\* lines 190-192: the failure is logged and swallowed
stopFailed ==
  /\ emitted' = <<>>
  /\ UNCHANGED <<procs, obj, sites, watchers, stopped>>

\* stopSite resolves normally whether or not the tool succeeded
stopSiteDone(c, ok) ==
  LET k == calls[c] IN
  /\ k.op = "stop" /\ k.stage = "exec"
  /\ IF ok THEN stopEffect(k) ELSE stopFailed
  /\ calls' = [calls EXCEPT ![c] = Idle]
  /\ returned' = [Ret("stop", k.h, k.id, "ok") EXCEPT !.pre = k.pre, !.tool = ok]
  /\ UNCHANGED <<nextId, disk, served, deleted, created, written, answer>>

\* ------------------------------------------------------------ deleteSite
\* lines 251-262 for a known id: a serving site is stopped first, then the
\* directory is removed
deleteSiteStart(c, h, m, id) ==
  IF obj[id].status = "serving"
  THEN stopSiteStart(c, h, m, id, "delete", "stop")
  ELSE /\ calls' = [calls EXCEPT ![c] = [Call("delete", h, m, id, "rm") EXCEPT
                                           !.pre = obj[id].status]]
       /\ emitted' = <<>>
       /\ returned' = NoRet
       /\ UNCHANGED <<sites, obj, nextId, procs, watchers, disk, served, stopped,
                      deleted, created, written, answer>>

deleteSite(c, id) ==
  /\ FreeSlot(c)
  /\ IF Known(ApiManager, id)
     THEN deleteSiteStart(c, "api", ApiManager, id)
     ELSE NotFound("delete", "api", id)

\* The stopSite awaited before the directory is removed has resolved.
\* stage "stop": the one nested in deleteSite (line 258); fs.remove starts.
\* stage "rstop": the one the site route awaits itself (part_005 line 80); the
\* handler then calls deleteSite, which throws for an id no longer in the Map,
\* stops once more a site that is still serving, else starts fs.remove.
deleteSiteStopDone(c, ok) ==
  LET k == calls[c]
      known == ok \/ Known(k.m, k.id)
      again == ~ok /\ obj[k.id].status = "serving"
  IN
  /\ k.op = "delete" /\ k.stage \in {"stop", "rstop"}
  /\ IF ok THEN stopEffect(k) ELSE stopFailed
  /\ IF k.stage = "stop"
     THEN /\ calls' = [calls EXCEPT ![c].stage = "rm"]
          /\ returned' = NoRet
     ELSE /\ calls' = [calls EXCEPT
                         ![c] = IF ~known THEN Idle
                                ELSE [k EXCEPT !.stage = IF again THEN "stop"
                                                         ELSE "rm"]]
          /\ returned' = IF known THEN NoRet ELSE Ret("delete", k.h, k.id, "error")
  /\ UNCHANGED <<nextId, disk, served, deleted, created, written, answer>>

\* lines 262-266: the directory is gone, the key is deleted, siteDeleted is
\* emitted; a failing fs.remove throws before the Map is touched
deleteSiteDone(c, ok) ==
  LET k == calls[c] IN
  /\ k.op = "delete" /\ k.stage = "rm"
  /\ calls' = [calls EXCEPT ![c] = Idle]
  /\ IF ok
     THEN /\ disk' = disk \ {obj[k.id].name}
          /\ written' = [written EXCEPT ![obj[k.id].name] = {}]
          /\ sites' = [sites EXCEPT ![k.m] = @ \ {k.id}]
          /\ deleted' = deleted \cup {k.id}
          /\ served' = [served EXCEPT ![k.id] = NoPort]
          /\ emitted' = <<Event("siteDeleted", k.id, k.m, k.h)>>
          /\ returned' = [Ret("delete", k.h, k.id, "ok") EXCEPT !.pre = k.pre,
                                                                 !.tool = TRUE]
     ELSE /\ emitted' = <<>>
          /\ returned' = [Ret("delete", k.h, k.id, "error") EXCEPT !.pre = k.pre]
          /\ UNCHANGED <<disk, sites, deleted, served, written>>
  /\ UNCHANGED <<obj, nextId, procs, watchers, stopped, created, answer>>

\* ------------------------------------------------------------ updateFile
\* what the caller of an updateFile that resolved or threw gets: the class's
\* caller the result, the files handler its response, the PUT handler of the
\* site route its response
RetOf(k, res) ==
  IF k.h = "files" THEN NoRet
  ELSE Ret(IF k.h = "api" THEN "updateFile" ELSE "put", k.h, k.id, res)

\* lines 199-207 for a known id: fs.ensureDir(path.dirname(fullPath)) begins
updateFileStart(c, h, m, id, p) ==
  /\ calls' = [calls EXCEPT ![c] = [Call("updateFile", h, m, id, "ensureDir")
                                      EXCEPT !.path = p]]
  /\ emitted' = <<>>
  /\ returned' = NoRet
  /\ UNCHANGED <<sites, obj, nextId, procs, watchers, disk, served, stopped,
                 deleted, created, written, answer>>

updateFile(c, id, p) ==
  /\ FreeSlot(c)
  /\ IF Known(ApiManager, id)
     THEN updateFileStart(c, "api", ApiManager, id, p)
     ELSE NotFound("updateFile", "api", id)

\* ensureDir or writeFile rejected: updateFile throws, the handler answers 500
updateFileThrew(c) ==
  LET k == calls[c] IN
  /\ calls' = [calls EXCEPT ![c] = Idle]
  /\ emitted' = <<>>
  /\ returned' = RetOf(k, "error")
  /\ answer' = IF k.h = "files" THEN [method |-> "PUT", id |-> k.id,
                                      path |-> k.path, status |-> 500]
               ELSE answer
  /\ UNCHANGED <<sites, obj, written>>

\* line 207: the directory of the file is there (made again if it was
\* removed), fs.writeFile begins
updateFileEnsureDir(c, ok) ==
  LET k == calls[c] IN
  /\ k.op = "updateFile" /\ k.stage = "ensureDir"
  /\ IF ok
     THEN /\ disk' = disk \cup {obj[k.id].name}
          /\ calls' = [calls EXCEPT ![c].stage = "write"]
          /\ emitted' = <<>>
          /\ returned' = NoRet
          /\ UNCHANGED <<sites, obj, written, answer>>
     ELSE /\ updateFileThrew(c)
          /\ UNCHANGED disk
  /\ UNCHANGED <<nextId, procs, watchers, served, stopped, deleted, created>>

\* lines 210-212: the file is written (which takes the directory to be
\* there) and fileUpdated is emitted.  The files handler answers 200; the PUT
\* handler of the site route goes on to buildSite (part_005 line 128), which
\* throws for an id no longer in the Map.
updateFileDone(c, ok) ==
  LET k == calls[c]
      id == k.id
      m == k.m
      h == k.h
  IN
  /\ k.op = "updateFile" /\ k.stage = "write"
  /\ ok => obj[id].name \in disk
  /\ IF ~ok THEN updateFileThrew(c)
     ELSE /\ written' = [written EXCEPT ![obj[id].name] = @ \cup {k.path}]
          /\ IF h = "put" /\ Known(m, id)
             THEN /\ obj' = SetStatus(obj, id, "building")
                  /\ sites' = MapSet(sites, m, id)
                  /\ emitted' = <<Event("fileUpdated", id, m, h),
                                  Event("siteStatusChanged", id, m, h)>>
                  /\ calls' = [calls EXCEPT ![c] = Call("build", h, m, id, "exec")]
                  /\ returned' = NoRet
                  /\ UNCHANGED answer
             ELSE /\ emitted' = <<Event("fileUpdated", id, m, h)>>
                  /\ calls' = [calls EXCEPT ![c] = Idle]
                  /\ returned' = RetOf(k, IF h = "put" THEN "error" ELSE "ok")
                  /\ answer' = IF h = "files"
                               THEN [method |-> "PUT", id |-> id, path |-> k.path,
                                     status |-> 200]
                               ELSE answer
                  /\ UNCHANGED <<sites, obj>>
  /\ UNCHANGED <<nextId, procs, watchers, disk, served, stopped, deleted, created>>

\* ------------------------------------------------------------ FileWatcher
\* A file under projects/<name> was modified and chokidar calls the 'change'
\* callback of one open watcher on the directory (lines 413-415): one
\* fileChanged for the site the watcher was made for.  Each open watcher gets
\* its own call, in no order the code fixes.
fileModified(name) ==
  /\ name \in disk
  /\ \E i \in Ids :
       /\ obj[i].name = name
       /\ OpenWatchers(i) > 0
       /\ emitted' = <<Event("fileChanged", i, obj[i].mgr, "watcher")>>
  /\ returned' = NoRet
  /\ UNCHANGED <<sites, obj, nextId, calls, procs, watchers, disk, served, stopped,
                 deleted, created, written, answer>>

\* ------------------------------------------------------------ WebSocketManager
\* One call of sendToClient: the connection, the message and what became of it.
Message(to, type, siteId, data, out) ==
  [to |-> to, type |-> type, siteId |-> siteId, data |-> data, out |-> out]

\* WebSocketManager.sendToClient: ws.send is called only when the socket is OPEN,
\* and what it throws is caught and logged; throws are the sockets whose send
\* throws in this step
sendToClient(cn, c, type, siteId, data, throws) ==
  Message(c, type, siteId, data,
          IF cn[c].state # "open" THEN "skipped"
          ELSE IF c \in throws THEN "threw"
          ELSE "sent")

\* mutant: a send that throws ends the forEach
RECURSIVE broadcastStopsAtThrow(_, _, _, _, _)
broadcastStopsAtThrow(c, type, siteId, pass, throws) ==
  IF c > MaxConns THEN <<>>
  ELSE IF c \in clients /\ c \in pass
  THEN LET m == sendToClient(conn, c, type, siteId, {}, throws)
       IN IF m.out = "threw" THEN <<m>>
          ELSE <<m>> \o broadcastStopsAtThrow(c + 1, type, siteId, pass, throws)
  ELSE broadcastStopsAtThrow(c + 1, type, siteId, pass, throws)

\* WebSocketManager.broadcast: clients.forEach in insertion order, which is the
\* order of the connection numbers; pass are the sockets the filter lets through
RECURSIVE broadcast(_, _, _, _, _)
broadcast(c, type, siteId, pass, throws) ==
  IF c > MaxConns THEN <<>>
  ELSE (IF c \in clients /\ c \in pass
        THEN <<sendToClient(conn, c, type, siteId, {}, throws)>>
        ELSE <<>>) \o broadcast(c + 1, type, siteId, pass, throws)

\* mutant: the filter lets every client through
broadcastToSiteSubscribersUnfiltered(siteId, type, throws) ==
  broadcast(1, type, siteId, Conns, throws)

\* WebSocketManager.broadcastToSiteSubscribers
broadcastToSiteSubscribers(siteId, type, throws) ==
  broadcast(1, type, siteId,
            {c \in Conns : siteId \in conn[c].subscribedSites}, throws)

\* mutant: every event goes to the subscribers of its site only
RECURSIVE setupJekyllManagerListenersSubscribersOnly(_, _)
setupJekyllManagerListenersSubscribersOnly(events, throws) ==
  IF events = <<>> THEN <<>>
  ELSE LET e == Head(events)
       IN (IF e.mgr # WsManager THEN <<>>
           ELSE broadcastToSiteSubscribers(e.id, e.type, throws))
          \o setupJekyllManagerListenersSubscribersOnly(Tail(events), throws)

\* the events the listeners pass to broadcast without a filter
BroadcastTypes == {"siteStatusChanged", "siteCreated", "siteBuilt", "siteServing",
                   "siteStopped", "siteDeleted"}

\* The listeners of setupJekyllManagerListeners, which run inside emit() of the
\* JekyllManager instance of websocket.ts: fileChanged goes to the subscribers
\* of the site, the six other events to every client; fileUpdated has no
\* listener.
RECURSIVE setupJekyllManagerListeners(_, _)
setupJekyllManagerListeners(events, throws) ==
  IF events = <<>> THEN <<>>
  ELSE LET e == Head(events)
       IN (IF e.mgr # WsManager THEN <<>>
           ELSE IF e.type = "fileChanged"
           THEN broadcastToSiteSubscribers(e.id, e.type, throws)
           ELSE IF e.type \in BroadcastTypes
           THEN broadcast(1, e.type, e.id, Conns, throws)
           ELSE <<>>)
          \o setupJekyllManagerListeners(Tail(events), throws)

\* what a step of a JekyllManager does to the connections: the events it emits
\* are broadcast, nothing else changes
Notify ==
  /\ \E throws \in SUBSET clients :
       sent' = setupJekyllManagerListeners(emitted', throws)
  /\ received' = NoInput
  /\ UNCHANGED <<clients, conn, ticks, server>>
  /\ UNCHANGED <<gen, struct>>

\* a step of the WebSocketManager calls no method of a JekyllManager but
\* getAllSites
ManagersIdle ==
  /\ emitted' = <<>>
  /\ returned' = NoRet
  /\ UNCHANGED <<sites, obj, nextId, calls, procs, watchers, disk, served,
                 stopped, deleted, created, written, answer>>
  /\ UNCHANGED <<gen, struct>>

\* JekyllManager.getAllSites, as JSON.stringify writes it at the send: the
\* records of the Map with the status and port they have at that moment
getAllSites(m) ==
  {[id |-> i, status |-> obj[i].status, port |-> obj[i].port] : i \in sites[m]}

\* mutant: the sites list goes out before the acknowledgment
handleConnectionSnapshotFirst(c, throws) ==
  /\ server.wss = "listening"
  /\ conn[c].state = "none"
  /\ \A b \in Conns : b < c => conn[b].state # "none"
  /\ conn' = [conn EXCEPT ![c] = [state |-> "open", isAlive |-> TRUE,
                                  subscribedSites |-> {}]]
  /\ clients' = clients \cup {c}
  /\ sent' = <<sendToClient(conn', c, "sites", 0, getAllSites(WsManager), throws),
               sendToClient(conn', c, "connected", 0, {c}, throws)>>
  /\ received' = Input("connection", c, 0)
  /\ ticks' = [ticks EXCEPT ![c] = 0]
  /\ UNCHANGED server
  /\ ManagersIdle

\* what a replay buffer would hold for the sites of the registry
RECURSIVE Replay(_, _, _)
Replay(i, c, throws) ==
  IF i > MaxSites THEN <<>>
  ELSE (IF i \in sites[WsManager]
        THEN <<sendToClient(conn', c, "siteStatusChanged", i, {}, throws)>>
        ELSE <<>>) \o Replay(i + 1, c, throws)

\* mutant: a new connection is sent the past events of the sites after the
\* sites list
handleConnectionReplays(c, throws) ==
  /\ server.wss = "listening"
  /\ conn[c].state = "none"
  /\ \A b \in Conns : b < c => conn[b].state # "none"
  /\ conn' = [conn EXCEPT ![c] = [state |-> "open", isAlive |-> TRUE,
                                  subscribedSites |-> {}]]
  /\ clients' = clients \cup {c}
  /\ sent' = <<sendToClient(conn', c, "connected", 0, {c}, throws),
               sendToClient(conn', c, "sites", 0, getAllSites(WsManager), throws)>>
             \o Replay(1, c, throws)
  /\ received' = Input("connection", c, 0)
  /\ ticks' = [ticks EXCEPT ![c] = 0]
  /\ UNCHANGED server
  /\ ManagersIdle

\* WebSocketManager.handleConnection
handleConnection(c, throws) ==
  /\ server.wss = "listening"
  /\ conn[c].state = "none"
  /\ \A b \in Conns : b < c => conn[b].state # "none"
  /\ conn' = [conn EXCEPT ![c] = [state |-> "open", isAlive |-> TRUE,
                                  subscribedSites |-> {}]]
  /\ clients' = clients \cup {c}
  /\ sent' = <<sendToClient(conn', c, "connected", 0, {c}, throws),
               sendToClient(conn', c, "sites", 0, getAllSites(WsManager), throws)>>
  /\ received' = Input("connection", c, 0)
  /\ ticks' = [ticks EXCEPT ![c] = 0]
  /\ UNCHANGED server
  /\ ManagersIdle

\* The sockets whose 'message' and 'pong' listeners can still be called: the
\* open ones, and those cleanup called close() on until their 'close' event
\* (the peer has not answered the closing handshake yet).
Receiving(c) ==
  \/ conn[c].state = "open"
  \/ conn[c].state = "closing" /\ c \in server.closeSent

\* the message types a client can send; "other" is any type the switch does not
\* know, "invalid" a payload JSON.parse rejects
MessageTypes == {"ping", "subscribe", "unsubscribe", "getSites", "other", "invalid"}

\* the `siteId` of a message; 0 stands for a missing or empty one
NoSiteId == 0

\* mutant: unsubscribe empties the subscription set
handleMessageUnsubscribeClears(c, type, siteId, throws) ==
  /\ Receiving(c)
  /\ type \in MessageTypes
  /\ conn' = [conn EXCEPT ![c].subscribedSites =
                IF siteId = NoSiteId THEN @
                ELSE IF type = "subscribe" THEN @ \cup {siteId}
                ELSE IF type = "unsubscribe" THEN {}
                ELSE @]
  /\ sent' =
       IF type = "ping" THEN <<sendToClient(conn, c, "pong", 0, {}, throws)>>
       ELSE IF type = "subscribe"
       THEN (IF siteId = NoSiteId THEN <<>>
             ELSE <<sendToClient(conn, c, "subscribed", siteId, {}, throws)>>)
       ELSE IF type = "unsubscribe"
       THEN (IF siteId = NoSiteId THEN <<>>
             ELSE <<sendToClient(conn, c, "unsubscribed", siteId, {}, throws)>>)
       ELSE IF type = "getSites"
       THEN <<sendToClient(conn, c, "sites", 0, getAllSites(WsManager), throws)>>
       ELSE IF type = "other"
       THEN <<sendToClient(conn, c, "error", 0, {"Unknown message type"}, throws)>>
       ELSE <<sendToClient(conn, c, "error", 0, {"Invalid message format"}, throws)>>
  /\ received' = Input(type, c, siteId)
  /\ UNCHANGED <<clients, ticks>>
  /\ UNCHANGED server
  /\ ManagersIdle

\* mutant: a message that cannot be parsed costs the sender its place in the set
handleMessageDropsInvalid(c, type, siteId, throws) ==
  /\ Receiving(c)
  /\ type \in MessageTypes
  /\ conn' = [conn EXCEPT ![c].subscribedSites =
                IF siteId = NoSiteId THEN @
                ELSE IF type = "subscribe" THEN @ \cup {siteId}
                ELSE IF type = "unsubscribe" THEN @ \ {siteId}
                ELSE @]
  /\ sent' =
       IF type = "ping" THEN <<sendToClient(conn, c, "pong", 0, {}, throws)>>
       ELSE IF type = "subscribe"
       THEN (IF siteId = NoSiteId THEN <<>>
             ELSE <<sendToClient(conn, c, "subscribed", siteId, {}, throws)>>)
       ELSE IF type = "unsubscribe"
       THEN (IF siteId = NoSiteId THEN <<>>
             ELSE <<sendToClient(conn, c, "unsubscribed", siteId, {}, throws)>>)
       ELSE IF type = "getSites"
       THEN <<sendToClient(conn, c, "sites", 0, getAllSites(WsManager), throws)>>
       ELSE IF type = "other"
       THEN <<sendToClient(conn, c, "error", 0, {"Unknown message type"}, throws)>>
       ELSE <<sendToClient(conn, c, "error", 0, {"Invalid message format"}, throws)>>
  /\ received' = Input(type, c, siteId)
  /\ clients' = IF type = "invalid" THEN clients \ {c} ELSE clients
  /\ UNCHANGED ticks
  /\ UNCHANGED server
  /\ ManagersIdle

\* mutant: the answer to an unknown type goes to every client
handleMessageErrorToAll(c, type, siteId, throws) ==
  /\ Receiving(c)
  /\ type \in MessageTypes
  /\ conn' = [conn EXCEPT ![c].subscribedSites =
                IF siteId = NoSiteId THEN @
                ELSE IF type = "subscribe" THEN @ \cup {siteId}
                ELSE IF type = "unsubscribe" THEN @ \ {siteId}
                ELSE @]
  /\ sent' =
       IF type = "ping" THEN <<sendToClient(conn, c, "pong", 0, {}, throws)>>
       ELSE IF type = "subscribe"
       THEN (IF siteId = NoSiteId THEN <<>>
             ELSE <<sendToClient(conn, c, "subscribed", siteId, {}, throws)>>)
       ELSE IF type = "unsubscribe"
       THEN (IF siteId = NoSiteId THEN <<>>
             ELSE <<sendToClient(conn, c, "unsubscribed", siteId, {}, throws)>>)
       ELSE IF type = "getSites"
       THEN <<sendToClient(conn, c, "sites", 0, getAllSites(WsManager), throws)>>
       ELSE IF type = "other"
       THEN broadcast(1, "error", 0, Conns, throws)
       ELSE <<sendToClient(conn, c, "error", 0, {"Invalid message format"}, throws)>>
  /\ received' = Input(type, c, siteId)
  /\ UNCHANGED <<clients, ticks>>
  /\ UNCHANGED server
  /\ ManagersIdle

\* WebSocketManager.handleMessage
handleMessage(c, type, siteId, throws) ==
  /\ Receiving(c)
  /\ type \in MessageTypes
  /\ conn' = [conn EXCEPT ![c].subscribedSites =
                IF siteId = NoSiteId THEN @
                ELSE IF type = "subscribe" THEN @ \cup {siteId}
                ELSE IF type = "unsubscribe" THEN @ \ {siteId}
                ELSE @]
  /\ sent' =
       IF type = "ping" THEN <<sendToClient(conn, c, "pong", 0, {}, throws)>>
       ELSE IF type = "subscribe"
       THEN (IF siteId = NoSiteId THEN <<>>
             ELSE <<sendToClient(conn, c, "subscribed", siteId, {}, throws)>>)
       ELSE IF type = "unsubscribe"
       THEN (IF siteId = NoSiteId THEN <<>>
             ELSE <<sendToClient(conn, c, "unsubscribed", siteId, {}, throws)>>)
       ELSE IF type = "getSites"
       THEN <<sendToClient(conn, c, "sites", 0, getAllSites(WsManager), throws)>>
       ELSE IF type = "other"
       THEN <<sendToClient(conn, c, "error", 0, {"Unknown message type"}, throws)>>
       ELSE <<sendToClient(conn, c, "error", 0, {"Invalid message format"}, throws)>>
  /\ received' = Input(type, c, siteId)
  /\ UNCHANGED <<clients, ticks>>
  /\ UNCHANGED server
  /\ ManagersIdle

\* extWs.on('pong')
onPong(c) ==
  /\ Receiving(c)
  /\ conn' = [conn EXCEPT ![c].isAlive = TRUE]
  /\ ticks' = [ticks EXCEPT ![c] = 0]
  /\ sent' = <<>>
  /\ received' = Input("pong", c, 0)
  /\ UNCHANGED clients
  /\ UNCHANGED server
  /\ ManagersIdle

\* the peer starts the closing handshake: readyState leaves OPEN, the 'close'
\* event comes later
closing(c) ==
  /\ conn[c].state = "open"
  /\ conn' = [conn EXCEPT ![c].state = "closing"]
  /\ sent' = <<>>
  /\ received' = Input("closing", c, 0)
  /\ UNCHANGED <<clients, ticks>>
  /\ UNCHANGED server
  /\ ManagersIdle

\* extWs.on('close')
onClose(c) ==
  /\ conn[c].state = "closing"
  /\ conn' = [conn EXCEPT ![c].state = "closed"]
  /\ clients' = clients \ {c}
  /\ server' = [server EXCEPT !.closeSent = @ \ {c}]
  /\ sent' = <<>>
  /\ received' = Input("close", c, 0)
  /\ UNCHANGED ticks
  /\ ManagersIdle

\* extWs.on('error'), on any socket whose 'close' event has not come, open or
\* closing: the listener deletes the socket from the set, whatever its state.
\* The ws socket that emits 'error' stops reading and goes on to close, so no
\* 'message' or 'pong' follows.
onError(c) ==
  /\ conn[c].state \in {"open", "closing"}
  /\ conn' = [conn EXCEPT ![c].state = "closing"]
  /\ clients' = clients \ {c}
  /\ server' = [server EXCEPT !.closeSent = @ \ {c}]
  /\ sent' = <<>>
  /\ received' = Input("error", c, 0)
  /\ UNCHANGED ticks
  /\ ManagersIdle

\* WebSocketManager.initialize(server), called by the owner of the HTTP server:
\* nothing when `this.wss` is set (also after cleanup, which closes the server
\* and keeps the field), else the server is made, handleConnection becomes its
\* 'connection' listener and startHeartbeat sets the interval.
initialize ==
  /\ server.wss = "none"
  /\ server' = [server EXCEPT !.wss = "listening", !.heartbeatInterval = TRUE]
  /\ sent' = <<>>
  /\ received' = Input("initialize", 0, 0)
  /\ UNCHANGED <<clients, conn, ticks>>
  /\ ManagersIdle

\* WebSocketManager.cleanup: the interval of the heartbeat is cleared, close()
\* is called on every socket of the set, the server, if there is one, is
\* closed.  No socket leaves the set here: each is deleted by its own 'close'
\* listener.
cleanup ==
  /\ server' = [wss |-> IF server.wss = "none" THEN "none" ELSE "closed",
                heartbeatInterval |-> FALSE,
                closeSent |-> server.closeSent \cup
                              {c \in clients : conn[c].state = "open"}]
  /\ conn' = [c \in Conns |->
                IF c \in clients /\ conn[c].state = "open"
                THEN [conn[c] EXCEPT !.state = "closing"]
                ELSE conn[c]]
  /\ sent' = <<>>
  /\ received' = Input("cleanup", 0, 0)
  /\ UNCHANGED <<clients, ticks>>
  /\ ManagersIdle

\* mutant: the tick pings every client and terminates none
startHeartbeatTerminatesNone ==
  /\ server.heartbeatInterval
  /\ clients # {}
  /\ conn' = [c \in Conns |->
                IF c \notin clients THEN conn[c]
                ELSE [conn[c] EXCEPT !.isAlive = FALSE]]
  /\ clients' = clients
  /\ ticks' = [c \in Conns |-> IF c \in clients THEN ticks[c] + 1 ELSE ticks[c]]
  /\ sent' = <<>>
  /\ received' = Input("heartbeat", 0, 0)
  /\ UNCHANGED server
  /\ ManagersIdle

\* mutant: the tick terminates every client it finds
startHeartbeatTerminatesAll ==
  /\ server.heartbeatInterval
  /\ clients # {}
  /\ conn' = [c \in Conns |->
                IF c \notin clients THEN conn[c]
                ELSE [conn[c] EXCEPT !.state = "closing"]]
  /\ clients' = {}
  /\ ticks' = [c \in Conns |-> IF c \in clients THEN ticks[c] + 1 ELSE ticks[c]]
  /\ sent' = <<>>
  /\ received' = Input("heartbeat", 0, 0)
  /\ UNCHANGED server
  /\ ManagersIdle

\* One tick of the interval of startHeartbeat: a client not alive is terminated
\* and deleted from the set, every other one is marked not alive and pinged.
startHeartbeat ==
  /\ server.heartbeatInterval
  /\ clients # {}
  /\ conn' = [c \in Conns |->
                IF c \notin clients THEN conn[c]
                ELSE IF ~conn[c].isAlive THEN [conn[c] EXCEPT !.state = "closing"]
                ELSE [conn[c] EXCEPT !.isAlive = FALSE]]
  /\ clients' = {c \in clients : conn[c].isAlive}
  /\ ticks' = [c \in Conns |-> IF c \in clients THEN ticks[c] + 1 ELSE ticks[c]]
  /\ sent' = <<>>
  /\ received' = Input("heartbeat", 0, 0)
  /\ UNCHANGED server
  /\ ManagersIdle

\* ------------------------------------------------------------ GeminiService
\* `private maxRetries = 3`
maxRetries == 3

\* How the copies of GeminiService call the model: "once" (jekyll-manager.ts
\* 503-582 and part_007 54-135, which have no generateAndParse) calls
\* generateContent one time and throws on any failure; "retryAll"
\* (generateAndParse of jekyll-manager.ts 880-923 and part_006 138-188) repeats
\* after every parse error and every generation error; "retrySome" (part_007
\* 445-495) repeats only after a SyntaxError of JSON.parse and after a
\* generation error with code ECONNABORTED or ETIMEDOUT.
GenVariants == {"once", "retryAll", "retrySome"}

\* What one call of model.generateContent leads to: text that parses, text on
\* which JSON.parse throws a SyntaxError, text without braces (the Error of
\* extractJsonFromResponse), a rejection with a timeout code, another rejection.
Responses == {"json", "syntaxError", "noJson", "timeout", "apiError"}

\* neither the WebSocketManager nor a JekyllManager takes part in a step of the
\* GeminiService or of the files handler
WsIdle ==
  /\ sent' = <<>>
  /\ received' = NoInput
  /\ UNCHANGED <<clients, conn, ticks, server>>

CoreIdle ==
  /\ emitted' = <<>>
  /\ returned' = NoRet
  /\ UNCHANGED <<sites, obj, nextId, calls, procs, watchers, disk, served,
                 stopped, deleted, created, ops>>
  /\ WsIdle

\* -------------------------------------------------- validateAndCleanStructure
\* an entry of a list field: its name (the title, for a post) and whether its
\* content is empty after trim()
Entry(name, blank) == [name |-> name, blank |-> blank]

Entries(names) == {Entry(n, b) : n \in names, b \in BOOLEAN}

\* the arrays of at most n entries
Arrays(entries, n) == UNION {[1..k -> entries] : k \in 0..n}

\* a field of the parsed JSON: missing, or an array
Fields(entries, n) ==
  {NoField} \cup {[present |-> TRUE, items |-> a] : a \in Arrays(entries, n)}

LayoutEntries == Entries({"default.html", "post.html"})
PageEntries == Entries({"index.html", "index.md", "about.md"})
IncludeEntries == Entries({"header.html"})
PostEntries == Entries({"Hello"})

\* the parsed structures validateAndCleanStructure is applied to
StructInputs ==
  [layouts : Fields(LayoutEntries, MaxEntries),
   includes : Fields(IncludeEntries, 1),
   posts : Fields(PostEntries, 1),
   pages : Fields(PageEntries, MaxEntries)]

\* the structures JSON.parse gives in a generation request: each list field
\* missing, empty or with one entry
ParsedInputs ==
  [layouts : {NoField, [present |-> TRUE, items |-> <<>>],
              [present |-> TRUE, items |-> <<Entry("post.html", FALSE)>>]},
   includes : {NoField, [present |-> TRUE, items |-> <<>>],
               [present |-> TRUE, items |-> <<Entry("header.html", FALSE)>>]},
   posts : {NoField, [present |-> TRUE, items |-> <<>>],
            [present |-> TRUE, items |-> <<Entry("Hello", TRUE)>>]},
   pages : {NoField, [present |-> TRUE, items |-> <<>>],
            [present |-> TRUE, items |-> <<Entry("about.md", FALSE)>>],
            [present |-> TRUE, items |-> <<Entry("index.md", TRUE)>>]}]

\* The copies of validateAndCleanStructure: "push" (jekyll-manager.ts 675-744,
\* part_006 338-407, part_007 227-296) appends the default layout and the index
\* page to the array it found; "replace" (jekyll-manager.ts 1078-1272) assigns
\* a new array that holds only the default; "pushShop" (part_007 671-877)
\* appends as "push" does, also a default include, and before that, for a
\* prompt that asks for an online store, the product layout and the shop page.
CleanVariants == {"push", "replace", "pushShop"}

\* The copies of GeminiService: how each calls the model and which
\* validateAndCleanStructure it has.
ServiceCopies ==
  {<<"once", "push">>, <<"retryAll", "push">>, <<"retryAll", "replace">>,
   <<"retrySome", "pushShop">>}

\* `structure.layouts || []`
OrEmpty(field) == IF field.present THEN field.items ELSE <<>>

\* `array.every(e => !e.content.trim())`, true of the empty array
EveryBlank(a) == \A i \in 1..Len(a) : a[i].blank

\* `pages.find(p => p.name === 'index.html' || p.name === 'index.md')`
HasIndex(a) == \E i \in 1..Len(a) : a[i].name \in {"index.html", "index.md"}

DefaultLayout == Entry("default.html", FALSE)
DefaultInclude == Entry("navigation.html", FALSE)
DefaultPost == Entry("Welcome to Our Blog", FALSE)

\* The copy of part_007 671-877; isEcommerce is what the prompt says.  No page
\* of a parsed structure has the permalink '/products', so the shop page is
\* appended whenever isEcommerce holds.
validateAndCleanShop(structure, isEcommerce) ==
  LET given == OrEmpty(structure.layouts)
      \* `layouts.find(l => l.name === 'product.html')`
      hasProduct == \E i \in 1..Len(given) : given[i].name = "product.html"
      layouts == IF isEcommerce /\ ~hasProduct
                 THEN Append(given, Entry("product.html", FALSE))
                 ELSE given
      pages == IF isEcommerce
               THEN Append(OrEmpty(structure.pages), Entry("products.md", FALSE))
               ELSE OrEmpty(structure.pages)
      includes == OrEmpty(structure.includes)
  IN [layouts |-> IF Len(layouts) = 0 THEN Append(layouts, DefaultLayout)
                  ELSE layouts,
      includes |-> IF Len(includes) = 0 THEN Append(includes, DefaultInclude)
                   ELSE includes,
      posts |-> OrEmpty(structure.posts),
      pages |-> IF ~HasIndex(pages)
                THEN Append(pages, Entry("index.html", FALSE))
                ELSE pages]

validateAndCleanStructure(variant, structure, isEcommerce) ==
  LET layouts == OrEmpty(structure.layouts)
      includes == OrEmpty(structure.includes)
      posts == OrEmpty(structure.posts)
      pages == OrEmpty(structure.pages)
  IN IF variant = "pushShop" THEN validateAndCleanShop(structure, isEcommerce)
     ELSE IF variant = "push"
     THEN [layouts |-> IF Len(layouts) = 0 THEN Append(layouts, DefaultLayout)
                       ELSE layouts,
           includes |-> includes,
           posts |-> posts,
           pages |-> IF ~HasIndex(pages)
                     THEN Append(pages, Entry("index.html", FALSE))
                     ELSE pages]
     ELSE [layouts |-> IF Len(layouts) = 0 \/ EveryBlank(layouts)
                       THEN <<DefaultLayout>> ELSE layouts,
           includes |-> IF Len(includes) = 0 \/ EveryBlank(includes)
                        THEN <<DefaultInclude>> ELSE includes,
           posts |-> IF Len(posts) = 0 \/ EveryBlank(posts)
                     THEN <<DefaultPost>> ELSE posts,
           pages |-> IF ~HasIndex(pages) \/ EveryBlank(pages)
                     THEN <<Entry("index.md", FALSE)>> ELSE pages]

\* generateAndParse(prompt, attempt): the guard of the first line, then the
\* call of the model
Attempt(g, attempt) ==
  IF attempt > maxRetries
  THEN [g EXCEPT !.state = "failed", !.attempt = attempt]
  ELSE [g EXCEPT !.state = "waiting", !.attempt = attempt, !.invoked = @ + 1]

\* generateSiteStructure(prompt) of one copy of the service, up to its await:
\* generateAndParse(initialPrompt), or for "once" the call of the model itself
generateSiteStructure(variant, cleanVariant, isEcommerce) ==
  /\ gen.state # "waiting"
  /\ <<variant, cleanVariant>> \in ServiceCopies
  /\ isEcommerce => cleanVariant = "pushShop"
  /\ gen' = Attempt([NoGen EXCEPT !.variant = variant], 1)
  /\ struct' = [NoStruct EXCEPT !.variant = cleanVariant, !.shop = isEcommerce]
  /\ UNCHANGED <<written, answer>>
  /\ CoreIdle

\* the text parsed: generateSiteStructure goes on in the same turn and returns
\* validateAndCleanStructure of the parsed structure
Cleaned(parsed) ==
  [struct EXCEPT !.called = TRUE, !.input = parsed,
                 !.output = validateAndCleanStructure(struct.variant, parsed,
                                                      struct.shop)]

\* mutant: the guards compare with maxRetries + 1
generateAndParseOneMore(r, parsed) ==
  /\ gen.state = "waiting"
  /\ LET g == [gen EXCEPT !.log = Append(@, r)]
         again == IF gen.attempt + 1 > maxRetries + 1
                  THEN [g EXCEPT !.state = "failed", !.attempt = gen.attempt + 1]
                  ELSE [g EXCEPT !.state = "waiting", !.attempt = gen.attempt + 1,
                                 !.invoked = @ + 1]
         fail == [g EXCEPT !.state = "failed"]
     IN gen' =
          IF r = "json" THEN [g EXCEPT !.state = "returned"]
          ELSE IF gen.variant = "once" THEN fail
          ELSE IF r \in {"syntaxError", "noJson"} THEN again
          ELSE IF gen.attempt >= maxRetries + 1 THEN fail
          ELSE again
  /\ struct' = IF r = "json" THEN Cleaned(parsed) ELSE struct
  /\ UNCHANGED <<written, answer>>
  /\ CoreIdle

\* The continuation after the await of the model: of generateSiteStructure
\* for "once", where every failure is thrown, of generateAndParse for the
\* others.  The recursive calls of generateAndParse are returned without
\* await, so what they throw is not caught by the try blocks around them.
generateAndParse(r, parsed) ==
  /\ gen.state = "waiting"
  /\ LET g == [gen EXCEPT !.log = Append(@, r)]
         again == Attempt(g, gen.attempt + 1)
         fail == [g EXCEPT !.state = "failed"]
     IN gen' =
          IF r = "json" THEN [g EXCEPT !.state = "returned"]
          ELSE IF gen.variant = "once" THEN fail
          ELSE IF r = "syntaxError" THEN again
          ELSE IF r = "noJson"
          THEN (IF gen.variant = "retryAll" THEN again ELSE fail)
          ELSE IF gen.attempt >= maxRetries THEN fail
          ELSE IF r = "timeout" THEN again
          ELSE (IF gen.variant = "retryAll" THEN again ELSE fail)
  /\ struct' = IF r = "json" THEN Cleaned(parsed) ELSE struct
  /\ UNCHANGED <<written, answer>>
  /\ CoreIdle

\* generateSiteStructure ends with `return this.validateAndCleanStructure(...)`
clean ==
  /\ ~struct.called
  /\ struct.variant \in CleanVariants
  /\ struct' = [struct EXCEPT
                  !.called = TRUE,
                  !.output = validateAndCleanStructure(struct.variant, struct.input,
                                                       struct.shop)]
  /\ UNCHANGED <<gen, written, answer>>
  /\ CoreIdle

\* ------------------------------------------------------------ files handler
PathInputs ==
  {NoPath, Path("", "about.md", FALSE), Path("", "about.md", TRUE),
   Path("..", "about.md", FALSE), Path("", "index.md", FALSE),
   Path("", "run.sh", FALSE)}

\* sanitizeInput: of what it removes (script elements, "javascript:", on...=
\* attributes, surrounding white space) these paths have only the last
sanitizeInput(p) == [p EXCEPT !.pad = FALSE]

\* isPathSafe: no ".." and no leading "/" after path.normalize, none of
\* DANGEROUS_PATHS
isPathSafe(p) == p.dir # ".."

\* isFileExtensionAllowed
isFileExtensionAllowed(p) == p.base \in {"about.md", "index.md"}

\* const criticalFiles = ['_config.yml', 'Gemfile', 'index.html', 'index.md']
criticalFiles == {"_config.yml", "Gemfile", "index.html", "index.md"}

Answer(method, id, p, status) ==
  [method |-> method, id |-> id, path |-> p, status |-> status]

\* the handler answers before it has called updateFile
FilesAnswer(method, id, p, status) ==
  /\ answer' = Answer(method, id, p, status)
  /\ returned' = NoRet
  /\ emitted' = <<>>
  /\ UNCHANGED <<sites, obj, nextId, calls, procs, watchers, disk, served,
                 stopped, deleted, created, written>>

\* PUT /api/sites/[id]/files on a handler whose JekyllManager is m: the
\* checks, then the await on updateFile; updateFileEnsureDir and
\* updateFileDone give the response
filesPut(c, m, id, p, hasContent) ==
  LET q == sanitizeInput(p) IN
  /\ FreeSlot(c)
  /\ IF ~Known(m, id) THEN FilesAnswer("PUT", id, p, 404)
     ELSE IF ~hasContent \/ p = NoPath THEN FilesAnswer("PUT", id, p, 400)
     ELSE IF ~isPathSafe(q) THEN FilesAnswer("PUT", id, q, 400)
     ELSE IF ~isFileExtensionAllowed(q) THEN FilesAnswer("PUT", id, q, 403)
     ELSE updateFileStart(c, "files", m, id, q)

\* DELETE /api/sites/[id]/files: the call of deleteFile is a comment (part_002
\* 382-383) and JekyllManager has no such method; the handler answers success
filesDelete(m, id, p) ==
  LET q == sanitizeInput(p) IN
  IF ~Known(m, id) THEN FilesAnswer("DELETE", id, p, 404)
  ELSE IF p = NoPath THEN FilesAnswer("DELETE", id, p, 400)
  ELSE IF ~isPathSafe(q) THEN FilesAnswer("DELETE", id, q, 400)
  ELSE IF q.base \in criticalFiles THEN FilesAnswer("DELETE", id, q, 403)
  ELSE FilesAnswer("DELETE", id, q, 200)

\* ------------------------------------------------------------ API routes
\* The JekyllManager instance of each route module (`const jekyllManager =
\* new JekyllManager()` at the top of the file).
CreateRouteManager == "create"
BuildRouteManager == "build"
ServeRouteManager == "serve"
SiteRouteManager == "site"
FilesRouteManager == "files"

Respond(op, h, id, res) ==
  /\ returned' = Ret(op, h, id, res)
  /\ emitted' = <<>>
  /\ UNCHANGED <<sites, obj, nextId, calls, procs, watchers, disk,
                 served, stopped, deleted, created, written, answer>>

\* POST /api/sites/create, part_003 lines 48-65: the name check, then the await
\* on the structure generator
createRoute(c, name) ==
  /\ FreeSlot(c)
  /\ IF name # NoName
        /\ \E i \in sites[CreateRouteManager] : obj[i].name = name
     THEN Respond("create", "create", 0, "NameConflict")
     ELSE /\ calls' = [calls EXCEPT
                         ![c] = [Call("create", "create", CreateRouteManager, 0, "gen")
                                   EXCEPT !.name = name]]
          /\ emitted' = <<>>
          /\ returned' = NoRet
          /\ UNCHANGED <<sites, obj, nextId, procs, watchers, disk,
                         served, stopped, deleted, created, written, answer>>

\* part_003 lines 65-71: the structure arrives (or the generator throws: 500),
\* finalName = sanitizedName || structure.name, createSite is called
createRouteGenerated(c, ok, structName) ==
  LET k == calls[c] IN
  /\ k.op = "create" /\ k.stage = "gen"
  /\ IF ok
     THEN createSiteStart(c, "create", k.m, structName,
                          IF k.name # NoName THEN k.name ELSE structName)
     ELSE /\ calls' = [calls EXCEPT ![c] = Idle]
          /\ returned' = Ret("create", "create", 0, "error")
          /\ emitted' = <<>>
          /\ UNCHANGED <<sites, obj, nextId, procs, watchers, disk,
                         served, stopped, deleted, created, written, answer>>

\* POST /api/sites/[id]/build, part_002 lines 29-49
buildRoute(c, id) ==
  LET site == getSite(BuildRouteManager, id) IN
  /\ FreeSlot(c)
  /\ IF site = NoObj THEN Respond("build", "build", id, "NotFound")
     ELSE IF site.status = "building" THEN Respond("build", "build", id, "Conflict")
     ELSE buildSiteStart(c, "build", BuildRouteManager, id)

\* POST /api/sites/[id]/serve, serve.ts lines 25-58
serveRoute(c, id, port) ==
  LET site == getSite(ServeRouteManager, id) IN
  /\ FreeSlot(c)
  /\ IF site = NoObj THEN Respond("serve", "serve", id, "NotFound")
     ELSE IF port # NoPort /\ (port < MinPort \/ port > MaxPort)
     THEN Respond("serve", "serve", id, "OutOfRange")
     ELSE IF site.status = "serving"
     THEN /\ returned' = [Ret("serve", "serve", id, "AlreadyServing") EXCEPT
                            !.port = site.port, !.pre = site.status,
                            !.prior = served[id]]
          /\ emitted' = <<>>
          /\ UNCHANGED <<sites, obj, nextId, calls, procs, watchers, disk,
                         served, stopped, deleted, created, written, answer>>
     ELSE serveSiteStart(c, "serve", ServeRouteManager, id, port)

\* DELETE /api/sites/[id]/serve, serve.ts lines 25-32 and 81-93
stopRoute(c, id) ==
  LET site == getSite(ServeRouteManager, id) IN
  /\ FreeSlot(c)
  /\ IF site = NoObj THEN Respond("stop", "stop", id, "NotFound")
     ELSE IF site.status # "serving"
     THEN /\ returned' = [Ret("stop", "stop", id, "NotServing") EXCEPT
                            !.pre = site.status]
          /\ emitted' = <<>>
          /\ UNCHANGED <<sites, obj, nextId, calls, procs, watchers, disk,
                         served, stopped, deleted, created, written, answer>>
     ELSE stopSiteStart(c, "stop", ServeRouteManager, id, "stop", "exec")

\* DELETE /api/sites/[id], part_005 lines 67-84: a serving site is stopped by
\* the handler before deleteSite is called
deleteRoute(c, id) ==
  LET site == getSite(SiteRouteManager, id) IN
  /\ FreeSlot(c)
  /\ IF site = NoObj THEN Respond("delete", "delete", id, "NotFound")
     ELSE IF site.status = "serving"
     THEN stopSiteStart(c, "delete", SiteRouteManager, id, "delete", "rstop")
     ELSE deleteSiteStart(c, "delete", SiteRouteManager, id)

\* a handler begins to wait for the file system
Await(c, op, m, id, stage) ==
  /\ calls' = [calls EXCEPT ![c] = Call(op, op, m, id, stage)]
  /\ emitted' = <<>>
  /\ returned' = NoRet
  /\ UNCHANGED <<sites, obj, nextId, procs, watchers, disk, served, stopped,
                 deleted, created, written, answer>>

\* a handler answers after an await
RespondAfter(c, op, id, res) ==
  /\ calls' = [calls EXCEPT ![c] = Idle]
  /\ returned' = Ret(op, op, id, res)
  /\ emitted' = <<>>
  /\ UNCHANGED <<sites, obj, nextId, procs, watchers, disk, served, stopped,
                 deleted, created, written, answer>>

\* GET /api/sites/[id] on a handler whose JekyllManager is m, part_005 lines
\* 25-37: 404 for an unknown id, else the await on listFiles
getRoute(c, m, id) ==
  /\ FreeSlot(c)
  /\ IF Known(m, id)
     THEN Await(c, "get", m, id, "readdir")
     ELSE Respond("get", "get", id, "NotFound")

\* part_005 lines 37-58: both listFiles are through, or one threw and the
\* inner catch answers with the site alone: 200 with the record read at line 26
getRouteDone(c) ==
  LET k == calls[c] IN
  /\ k.op = "get" /\ k.stage = "readdir"
  /\ RespondAfter(c, "get", k.id, "ok")

\* the file the PUT handler of the site route rewrites
configPath == Path("", "_config.yml", FALSE)

\* PUT /api/sites/[id] on a handler whose JekyllManager is m, part_005 lines
\* 102-118: 404 for an unknown id, 200 at once for a body without name and
\* description, else the await on readFile
putRoute(c, m, id, hasFields) ==
  /\ FreeSlot(c)
  /\ IF ~Known(m, id) THEN Respond("put", "put", id, "NotFound")
     ELSE IF ~hasFields THEN Respond("put", "put", id, "ok")
     ELSE Await(c, "put", m, id, "readFile")

\* part_005 lines 118-125: readFile resolved (the directory is there) and
\* updateFile is called, which throws for an id no longer in the Map; or
\* readFile rejected: 500
putRouteReadDone(c, ok) ==
  LET k == calls[c] IN
  /\ k.op = "put" /\ k.stage = "readFile"
  /\ ok => obj[k.id].name \in disk
  /\ IF ok /\ Known(k.m, k.id)
     THEN updateFileStart(c, "put", k.m, k.id, configPath)
     ELSE RespondAfter(c, "put", k.id, "error")

\* ------------------------------------------------------------------ Next
NameInputs == Names \cup {NoName}

\* a call or request is issued
Issue == ops < MaxOps /\ ops' = ops + 1

\* a call is issued by a caller that does not wait for the calls in flight
IssueOverlapping == ops < MaxOverlapOps /\ ops' = ops + 1

\* the class is driven with structures and site data that carry no name (the
\* fallback site-<id> applies); names come in through the create route
ApiCreate == \E c \in Slots : Issue /\ createSite(c, NoName, NoName) /\ Notify
ApiBuild == \E c \in Slots, id \in Ids : IssueOverlapping /\ buildSite(c, id)
    /\ Notify
ApiServe ==
  \E c \in Slots, id \in Ids, port \in PortInputs :
    IssueOverlapping /\ serveSite(c, id, port) /\ Notify
ApiStop == \E c \in Slots, id \in Ids : IssueOverlapping /\ stopSite(c, id)
    /\ Notify
ApiDelete == \E c \in Slots, id \in Ids : IssueOverlapping /\ deleteSite(c, id)
    /\ Notify

RouteCreate == \E c \in Slots, name \in NameInputs : Issue /\ createRoute(c, name)
    /\ Notify
RouteBuild == \E c \in Slots, id \in Ids : Issue /\ buildRoute(c, id) /\ Notify
RouteServe ==
  \E c \in Slots, id \in Ids, port \in PortInputs : Issue /\ serveRoute(c, id, port)
    /\ Notify
RouteStop == \E c \in Slots, id \in Ids : Issue /\ stopRoute(c, id) /\ Notify
RouteDelete == \E c \in Slots, id \in Ids : Issue /\ deleteRoute(c, id) /\ Notify
RouteGet ==
  \E c \in Slots, id \in Ids : Issue /\ getRoute(c, SiteRouteManager, id) /\ Notify
RoutePut ==
  \E c \in Slots, id \in Ids, hasFields \in BOOLEAN :
    Issue /\ putRoute(c, SiteRouteManager, id, hasFields) /\ Notify
FilesPut ==
  \E c \in Slots, id \in Ids, p \in PathInputs, hasContent \in BOOLEAN :
    Issue /\ filesPut(c, FilesRouteManager, id, p, hasContent) /\ Notify
FilesDelete ==
  \E id \in Ids, p \in PathInputs :
    Issue /\ filesDelete(FilesRouteManager, id, p) /\ Notify

\* the path the class's caller writes
UpdatePath == Path("", "about.md", FALSE)

ApiUpdateFile ==
  \E c \in Slots, id \in Ids :
    IssueOverlapping /\ updateFile(c, id, UpdatePath) /\ Notify

Generated ==
  \E c \in Slots, ok \in BOOLEAN, sn \in Names :
    createRouteGenerated(c, ok, sn) /\ UNCHANGED ops /\ Notify
CreateEnsureDir ==
  \E c \in Slots, ok \in BOOLEAN : createSiteEnsureDir(c, ok) /\ UNCHANGED ops
    /\ Notify
CreateEnsureSubdir ==
  \E c \in Slots : createJekyllStructureEnsureDir(c) /\ UNCHANGED ops /\ Notify
CreateDone == \E c \in Slots, ok \in BOOLEAN : createSiteDone(c, ok) /\ UNCHANGED ops
    /\ Notify
UpdateEnsureDir ==
  \E c \in Slots, ok \in BOOLEAN : updateFileEnsureDir(c, ok) /\ UNCHANGED ops
    /\ Notify
UpdateDone == \E c \in Slots, ok \in BOOLEAN : updateFileDone(c, ok) /\ UNCHANGED ops
    /\ Notify
BuildDone == \E c \in Slots, ok \in BOOLEAN : buildSiteDone(c, ok) /\ UNCHANGED ops
    /\ Notify
ServeDone == \E c \in Slots, ok \in BOOLEAN : serveSiteDone(c, ok) /\ UNCHANGED ops
    /\ Notify
StopDone == \E c \in Slots, ok \in BOOLEAN : stopSiteDone(c, ok) /\ UNCHANGED ops
    /\ Notify
DeleteStopDone ==
  \E c \in Slots, ok \in BOOLEAN : deleteSiteStopDone(c, ok) /\ UNCHANGED ops /\ Notify
DeleteDone == \E c \in Slots, ok \in BOOLEAN : deleteSiteDone(c, ok) /\ UNCHANGED ops
    /\ Notify
FileChange == \E name \in AllNames : fileModified(name) /\ UNCHANGED ops /\ Notify

\* One JekyllManager driven through its public methods, calls overlapping as
\* the event loop allows.
Next ==
  \/ ApiCreate \/ ApiBuild \/ ApiServe \/ ApiStop \/ ApiDelete \/ ApiUpdateFile
  \/ CreateEnsureDir \/ CreateEnsureSubdir \/ CreateDone
  \/ BuildDone \/ ServeDone \/ StopDone
  \/ DeleteStopDone \/ DeleteDone
  \/ UpdateEnsureDir \/ UpdateDone
  \/ FileChange

Spec == Init /\ [][Next]_vars

\* exec calls back when the tool exits, and kills it after `timeout: 120000`
\* (line 104): a build in flight is eventually completed
SpecLive == Spec /\ WF_vars(BuildDone)

\* The same instance under a caller that waits for a call on a site to return
\* before it issues the next one on that site, and stops only serving sites.
Quiet(id) == Known(ApiManager, id) /\ \A c \in Slots : calls[c].id # id

OrderlyBuild == \E c \in Slots, id \in Ids : Quiet(id) /\ Issue /\ buildSite(c, id)
    /\ Notify
OrderlyServe ==
  \E c \in Slots, id \in Ids, port \in PortInputs \cup {LowPort} :
    Quiet(id) /\ Issue /\ serveSite(c, id, port) /\ Notify
OrderlyStop ==
  \E c \in Slots, id \in Ids :
    Quiet(id) /\ obj[id].status = "serving" /\ Issue /\ stopSite(c, id) /\ Notify
OrderlyDelete == \E c \in Slots, id \in Ids : Quiet(id) /\ Issue /\ deleteSite(c, id)
    /\ Notify
OrderlyUpdateFile ==
  \E c \in Slots, id \in Ids :
    Quiet(id) /\ Issue /\ updateFile(c, id, UpdatePath) /\ Notify

\* No call removes the directory of a site while its createSite is in flight,
\* so createJekyllStructureEnsureDir has nothing to make again.
NextOrderly ==
  \/ ApiCreate \/ OrderlyBuild \/ OrderlyServe \/ OrderlyStop \/ OrderlyDelete
  \/ OrderlyUpdateFile
  \/ CreateEnsureDir \/ CreateDone \/ BuildDone \/ ServeDone \/ StopDone
  \/ DeleteStopDone \/ DeleteDone
  \/ UpdateEnsureDir \/ UpdateDone
  \/ FileChange

SpecOrderly == Init /\ [][NextOrderly]_vars

\* The application: requests to the API routes, each route module working on
\* the JekyllManager it constructed.  No serve, stop, delete, listFiles,
\* readFile or updateFile call is ever started by a route
\* (RoutesStartOnlyCreate), so their continuations are not disjuncts here.
NextRoutes ==
  \/ RouteCreate \/ RouteBuild \/ RouteServe \/ RouteStop \/ RouteDelete \/ RouteGet
  \/ RoutePut \/ FilesPut \/ FilesDelete
  \/ Generated \/ CreateEnsureDir \/ CreateDone \/ BuildDone

SpecRoutes == Init /\ [][NextRoutes]_vars

\* under SpecRoutes the only calls that ever get in flight are those of the
\* create route
RoutesStartOnlyCreate ==
  \A c \in Slots : calls[c].op \in {"idle", "create", "build"}
                   /\ calls[c].h \in {"none", "create"}

\* under SpecRoutes the files handler, whose JekyllManager no code fills,
\* answers every request with 404
FilesAnswersNotFound == answer.method # "none" => answer.status = 404

\* The WebSocketManager of websocket.ts and its JekyllManager: clients connect,
\* send messages, answer pings or fall silent, and close, the interval of the
\* heartbeat ticks, and the instance is driven by the orderly caller above.
SiteIdInputs(type) ==
  IF type \in {"subscribe", "unsubscribe"} THEN Ids \cup {NoSiteId} ELSE {NoSiteId}

Connect ==
  \E c \in Conns : \E throws \in SUBSET {c} : Issue /\ handleConnection(c, throws)
ClientMessage ==
  \E c \in Conns, type \in MessageTypes :
    \E siteId \in SiteIdInputs(type), throws \in SUBSET {c} :
      Issue /\ handleMessage(c, type, siteId, throws)
Pong == \E c \in Conns : Issue /\ onPong(c)
Closing == \E c \in Conns : Issue /\ closing(c)
Close == \E c \in Conns : onClose(c) /\ UNCHANGED ops
SocketError == \E c \in Conns : Issue /\ onError(c)
Heartbeat == Issue /\ startHeartbeat
Cleanup == Issue /\ cleanup
Initialize == initialize /\ UNCHANGED ops

\* the caller creates one site
FirstCreate == nextId = 0 /\ ApiCreate

NextWs ==
  \/ Connect \/ ClientMessage \/ Pong \/ Closing \/ Close \/ SocketError \/ Heartbeat
  \/ Initialize \/ Cleanup
  \/ FirstCreate \/ OrderlyBuild \/ OrderlyServe \/ OrderlyStop \/ OrderlyDelete
  \/ OrderlyUpdateFile
  \/ CreateEnsureDir \/ CreateDone \/ BuildDone \/ ServeDone \/ StopDone
  \/ DeleteStopDone \/ DeleteDone
  \/ UpdateEnsureDir \/ UpdateDone
  \/ FileChange

SpecWs == Init /\ [][NextWs]_vars

\* A GeminiService asked for site structures, one request at a time.
Generate ==
  \E variant \in GenVariants, cleanVariant \in CleanVariants, isEcommerce \in BOOLEAN :
    generateSiteStructure(variant, cleanVariant, isEcommerce)
ModelResponds ==
  \E r \in Responses, parsed \in ParsedInputs : generateAndParse(r, parsed)

NextGen == Generate \/ ModelResponds

SpecGen == Init /\ [][NextGen]_vars

\* model.generateContent resolves or rejects: the promise generateAndParse
\* awaits is settled
SpecGenLive == SpecGen /\ WF_vars(ModelResponds)

\* validateAndCleanStructure applied to each of the parsed structures
InitClean ==
  /\ Constructed
  /\ struct \in {[variant |-> v, shop |-> e, called |-> FALSE, input |-> i,
                   output |-> NoArrays] :
                   v \in CleanVariants, e \in BOOLEAN, i \in StructInputs}
  /\ struct.shop => struct.variant = "pushShop"

SpecClean == InitClean /\ [][clean]_vars

\* ---------------------------------------------------------------- claims
Registered(id) == \E m \in Managers : id \in sites[m]

Serving(id) == Registered(id) /\ obj[id].status = "serving"

Procs(id) == {p \in procs : p.id = id}

RECURSIVE Count(_, _, _)
Count(seq, type, id) ==
  IF seq = <<>> THEN 0
  ELSE (IF Head(seq).type = type /\ Head(seq).id = id THEN 1 ELSE 0)
       + Count(Tail(seq), type, id)

RouteHandlers == {"create", "build", "serve", "stop", "delete", "get"}

\* setupJekyllManagerListeners registers every listener of the WebSocketManager
\* on the jekyllManager of websocket.ts
Listening(m) == m = WsManager

\* C1: no two sites whose status is Serving hold the same port.
C1_ServingPortsDistinct ==
  \A a \in Ids, b \in Ids :
    (a # b /\ Serving(a) /\ Serving(b)) => obj[a].port # obj[b].port

\* C2: no Get, Build, Serve, Stop or Delete fails NotFound for an id that Create
\* returned and Delete has not removed.
C2_CreatedSiteIsFound ==
  returned.res = "NotFound" => returned.id \notin (created \ deleted)

\* C3: every event published by an operation invoked through the caller-facing
\* layer is published on the event source the ConnectionManager subscribed to.
C3_RouteEventsReachListeners ==
  \A i \in 1..Len(emitted) :
    emitted[i].h \in RouteHandlers => Listening(emitted[i].mgr)

\* C4: no two of Build, Serve, Stop and Delete are in progress at the same time
\* on the same site id.
C4_OneOperationPerSite ==
  \A c \in Slots, d \in Slots :
    (c # d /\ calls[c].op \in {"build", "serve", "stop", "delete"}
           /\ calls[d].op \in {"build", "serve", "stop", "delete"})
    => (calls[c].id # calls[d].id \/ calls[c].m # calls[d].m)

\* C5: a Serve of a site that was served on port p, with no Stop of it since,
\* fails AlreadyServing, reports p and starts no preview process.
C5_SecondServeAlreadyServing ==
  (returned.op = "serve" /\ returned.prior # NoPort)
  => /\ returned.res = "AlreadyServing"
     /\ returned.port = returned.prior
     /\ ~returned.tool

\* C6: once Stop(S) of a serving site S has completed, S has no open watcher
\* and no fileChanged is emitted for S.
C6_StoppedSiteHasNoWatcher ==
  \A id \in Ids :
    stopped[id] => /\ OpenWatchers(id) = 0
                   /\ Count(emitted, "fileChanged", id) = 0

\* C7: each site has at most one open watcher and at most one preview process.
\* A modification of a file calls the 'change' listener of every open watcher
\* of the site once (fileModified), so it gives one fileChanged for the site
\* exactly when the site has one open watcher.
C7_OneWatcherOneProcess ==
  \A id \in Ids :
    /\ OpenWatchers(id) <= 1
    /\ Cardinality(Procs(id)) <= 1

\* C8: once Delete has removed the record of a site, no later step puts it
\* back into a registry.
C8_DeleteIsTerminal == \A id \in deleted : ~Registered(id)

\* C9: when an operation returns, the status of the site it operated on is
\* neither building nor creating.
C9_ReturnLeavesStatusSettled ==
  (returned.op # "none" /\ returned.id \in Ids /\ Registered(returned.id))
  => obj[returned.id].status \notin {"building", "creating"}

\* C10: Stop on a known site that is not serving fails NotServing and emits
\* no event.
C10_StopOfNonServingFails ==
  (returned.op = "stop" /\ returned.pre \in {"creating", "ready", "building", "error"})
  => /\ returned.res = "NotServing"
     /\ ~returned.tool
     /\ emitted = <<>>

Has(seq, type, id) == Count(seq, type, id) > 0

\* C11: a Stop of a serving site that returns without reporting a failure has
\* stopped the preview process, cleared the port, set the status to ready and
\* emitted siteStopped and siteStatusChanged; a Stop whose shutdown failed
\* does not report success.
C11_StopReportsOutcome ==
  (returned.op = "stop" /\ returned.pre = "serving" /\ returned.res = "ok")
  => /\ returned.tool
     /\ Procs(returned.id) = {}
     /\ obj[returned.id].port = NoPort
     /\ obj[returned.id].status = "ready"
     /\ Has(emitted, "siteStopped", returned.id)
     /\ Has(emitted, "siteStatusChanged", returned.id)

\* C12: a registered site has a port only while its status is serving.
C12_PortOnlyWhileServing ==
  \A id \in Ids :
    (Registered(id) /\ obj[id].port # NoPort) => obj[id].status = "serving"

\* the lifecycle table: a record appears in creating; creating -> ready | error,
\* ready | error -> building, building -> ready | error, ready -> serving | error,
\* serving -> ready
Lifecycle ==
  {<<"none", "creating">>,
   <<"creating", "ready">>, <<"creating", "error">>,
   <<"ready", "building">>, <<"error", "building">>,
   <<"building", "ready">>, <<"building", "error">>,
   <<"ready", "serving">>, <<"ready", "error">>,
   <<"serving", "ready">>}

StatusStepsInLifecycle ==
  \A id \in Ids :
    obj'[id].status # obj[id].status
    => <<obj[id].status, obj'[id].status>> \in Lifecycle

\* C13: every change of a site's status is a transition of the lifecycle table.
C13_LifecycleTransitions == [][StatusStepsInLifecycle]_vars

\* C14: no two records of a registry have the same name.
C14_NamesUnique ==
  \A m \in Managers : \A a \in sites[m], b \in sites[m] :
    a # b => obj[a].name # obj[b].name

\* C15: a Build of a known site whose tool fails (non-zero exit, throw or
\* timeout) sets the status to error, emits siteStatusChanged and nothing else,
\* and returns a failed result as data: it does not throw and does not leave
\* the status at building.
C15_FailedBuildReturnsError ==
  (returned.op = "build" /\ returned.res # "NotFound" /\ ~returned.tool)
  => /\ returned.res = "failed"
     /\ obj[returned.id].status = "error"
     /\ emitted = <<Event("siteStatusChanged", returned.id, ApiManager, returned.h)>>

C15_Witness ==
  /\ returned.op = "build" /\ returned.res = "failed" /\ ~returned.tool
  /\ obj[returned.id].status = "error"

\* a buildSite call gets in flight only for an id of the Map
BuildStartsOnlyIfKnown ==
  \A c \in Slots :
    (calls[c].op = "idle" /\ calls'[c].op = "build")
    => calls'[c].id \in sites[calls'[c].m]

\* a build that fails NotFound was for an id not in the Map, emits nothing and
\* changes no record, no registry and no call in flight
BuildNotFoundChangesNothing ==
  (returned'.op = "build" /\ returned'.res = "NotFound")
  => /\ returned'.id \notin sites[ApiManager]
     /\ emitted' = <<>>
     /\ obj' = obj /\ sites' = sites /\ calls' = calls
     /\ procs' = procs /\ watchers' = watchers

\* C16: Build on an id that is not in the registry fails NotFound, emits no
\* event and leaves every site record unchanged.
C16_BuildUnknownNotFound ==
  [][BuildStartsOnlyIfKnown /\ BuildNotFoundChangesNothing]_vars

C16_Witness ==
  /\ returned.op = "build" /\ returned.res = "NotFound"
  /\ returned.id \notin sites[ApiManager]
  /\ sites[ApiManager] # {}

BuildSucceeded ==
  (returned'.op = "build" /\ returned'.res = "ok")
  => /\ returned'.tool
     /\ obj'[returned'.id].status = "ready"
     /\ obj'[returned'.id].lastBuilt
     /\ emitted' = <<Event("siteStatusChanged", returned'.id, ApiManager, returned'.h),
                     Event("siteBuilt", returned'.id, ApiManager, returned'.h)>>

BuildFailedKeepsLastBuilt ==
  (returned'.op = "build" /\ returned'.res = "failed")
  => /\ ~returned'.tool
     /\ obj'[returned'.id].lastBuilt = obj[returned'.id].lastBuilt

\* C17: a Build whose tool exits 0 sets the status to ready, sets lastBuilt,
\* emits siteStatusChanged and siteBuilt and returns success; a failed Build
\* leaves lastBuilt as it was.
C17_BuildSuccessStampsLastBuilt == [][BuildSucceeded /\ BuildFailedKeepsLastBuilt]_vars

\* a build failed after an earlier one had succeeded: lastBuilt is still set
C17_Witness ==
  /\ returned.op = "build" /\ returned.res = "failed"
  /\ obj[returned.id].status = "error" /\ obj[returned.id].lastBuilt

\* C18: a site in status building eventually reaches ready or error.
C18_BuildingEventuallySettles ==
  \A id \in Ids :
    (obj[id].status = "building") ~> (obj[id].status \in {"ready", "error"})

C18_Witness ==
  \E c \in Slots : /\ calls[c].op = "build" /\ calls[c].stage = "exec"
                    /\ obj[calls[c].id].status = "building"

ServeSucceeded ==
  (returned'.op = "serve" /\ returned'.res = "ok")
  => LET id == returned'.id IN
     /\ returned'.tool
     /\ \E c \in Slots : /\ calls[c].op = "serve" /\ calls[c].id = id
                         /\ calls[c].port = returned'.port
                         /\ calls'[c] = Idle
     /\ returned'.port # NoPort
     /\ obj'[id].status = "serving"
     /\ obj'[id].port = returned'.port
     /\ [id |-> id, port |-> returned'.port] \in procs'
     /\ emitted' = <<Event("siteStatusChanged", id, ApiManager, returned'.h),
                     Event("siteServing", id, ApiManager, returned'.h)>>
     /\ watchers'[id].armed = watchers[id].armed + 1

\* C19: a Serve whose preview process starts sets the status to serving, stores
\* the chosen port, emits siteStatusChanged and siteServing, opens a watcher
\* for the site and returns the port it stored.
C19_ServeSuccessEffects == [][ServeSucceeded]_vars

C19_Witness ==
  /\ returned.op = "serve" /\ returned.res = "ok"
  /\ obj[returned.id].status = "serving"
  /\ obj[returned.id].port = returned.port
  /\ OpenWatchers(returned.id) = 1

ServeFailed ==
  (returned'.op = "serve" /\ returned'.res = "error")
  => LET id == returned'.id IN
     /\ ~returned'.tool
     /\ obj'[id].status = "error"
     /\ obj'[id].port = obj[id].port
     /\ emitted' = <<Event("siteStatusChanged", id, ApiManager, returned'.h)>>
     /\ watchers' = watchers
     /\ procs' = procs

\* C20: a Serve whose preview process fails to start sets the status to error,
\* emits siteStatusChanged and no siteServing, opens no watcher, stores no
\* port and throws the failure to the caller.
C20_ServeFailureEffects == [][ServeFailed]_vars

C20_Witness ==
  /\ returned.op = "serve" /\ returned.res = "error"
  /\ obj[returned.id].status = "error"
  /\ obj[returned.id].port = NoPort
  /\ OpenWatchers(returned.id) = 0

\* the least port >= StartPort that no other site of the registry in status
\* serving holds
LeastPortNotServed(id) ==
  NextFree(StartPort,
           {obj[j].port : j \in {k \in sites[ApiManager] \ {id} :
                                    obj[k].status = "serving"}})

\* C21: a Serve without a requested port, of a site that is not serving,
\* allocates the least port >= 4000 that no other serving site holds; a port
\* on a record that is not serving, or on the site itself, does not block it.
C21_AllocatesLeastPortNotServed ==
  \A id \in sites[ApiManager] :
    obj[id].status # "serving"
    => ChoosePort(ApiManager, NoPort) = LeastPortNotServed(id)

InRange(port) == port >= MinPort /\ port <= MaxPort

\* C22: a Serve with a requested port outside 3000..9999 fails OutOfRange: no
\* call to the tool is started for such a port, no preview process runs on
\* it and no record holds it.
C22_OutOfRangePortRejected ==
  /\ \A c \in Slots : calls[c].op = "serve" => InRange(calls[c].port)
  /\ \A p \in procs : InRange(p.port)
  /\ \A id \in Ids : obj[id].port # NoPort => InRange(obj[id].port)
  /\ returned.op = "serve" /\ returned.res = "ok" => InRange(returned.port)

\* C23: when Delete of a known site has returned, the record is removed,
\* siteDeleted has been emitted and no preview process or watcher of the site
\* is left.
C23_DeleteLeavesNothingRunning ==
  (returned.op = "delete" /\ returned.res = "ok")
  => /\ returned.id \notin sites[ApiManager]
     /\ Has(emitted, "siteDeleted", returned.id)
     /\ Procs(returned.id) = {}
     /\ OpenWatchers(returned.id) = 0

\* the sites a step is about: those of the calls it starts, continues or
\* completes
Touched ==
  {calls[c].id : c \in {d \in Slots : calls'[d] # calls[d]}}
  \cup {calls'[c].id : c \in {d \in Slots : calls'[d] # calls[d]}}
  \cup {returned'.id}

OthersUnchanged ==
  \A b \in Ids \ Touched :
    /\ obj'[b] = obj[b]
    /\ {p \in procs' : p.id = b} = Procs(b)
    /\ watchers'[b].armed + watchers'[b].leaked = OpenWatchers(b)

\* C24: an operation on site A leaves the status, port, preview process and
\* watcher of every other site B as they were.
C24_OtherSitesUnchanged == [][OthersUnchanged]_vars

\* ws.send was called with a message of this type and site for connection c in
\* the last step
SentTo(c, type, siteId) ==
  \E k \in 1..Len(sent) : sent[k].to = c /\ sent[k].type = type
                           /\ sent[k].siteId = siteId /\ sent[k].out # "skipped"

\* the instance of websocket.ts emitted an event of this type for the site in
\* the last step
Published(type, siteId) ==
  \E i \in 1..Len(emitted) : emitted[i].type = type /\ emitted[i].id = siteId
                              /\ emitted[i].mgr = WsManager

\* C25: a fileChanged event for site S is sent to a connection if and only if S
\* is in the connection's subscription set when the event is published: no
\* fileChanged message goes out without a published event or to a connection
\* that is not subscribed, and every open subscribed connection is sent it.
C25_FileChangedIffSubscribed ==
  /\ \A k \in 1..Len(sent) :
       sent[k].type = "fileChanged" =>
         /\ Published("fileChanged", sent[k].siteId)
         /\ sent[k].siteId \in conn[sent[k].to].subscribedSites
  /\ \A id \in Ids, c \in Conns :
       (/\ Published("fileChanged", id)
        /\ conn[c].state = "open"
        /\ id \in conn[c].subscribedSites) => SentTo(c, "fileChanged", id)

\* a change of a file of site S reached a subscribed connection while another
\* open connection, not subscribed to S, was sent nothing
C25_Witness ==
  \E id \in Ids, c \in Conns, b \in Conns :
    /\ Published("fileChanged", id)
    /\ SentTo(c, "fileChanged", id)
    /\ b # c /\ b \in clients /\ conn[b].state = "open"
    /\ id \notin conn[b].subscribedSites
    /\ \A k \in 1..Len(sent) : sent[k].to # b

\* two ticks of the heartbeat have passed over the connection with no pong
\* from it in between
MissedTwoTicks(c) == ticks[c] >= 2

\* C26: a connection that sends no pong between two consecutive heartbeat ticks
\* is terminated and out of the client set from the second tick on, its
\* subscription set is consulted no more, and sendToClient is never called for
\* it again.
C26_SilentConnectionRemoved ==
  /\ \A c \in Conns :
       MissedTwoTicks(c) => c \notin clients /\ conn[c].state \in {"closing", "closed"}
  /\ \A k \in 1..Len(sent) : ~MissedTwoTicks(sent[k].to)

\* a connection subscribed to a site stayed silent over two ticks, and a file
\* change of that site is published afterwards
C26_Witness ==
  \E c \in Conns, id \in Ids :
    /\ MissedTwoTicks(c)
    /\ id \in conn[c].subscribedSites
    /\ Published("fileChanged", id)
    /\ ~SentTo(c, "fileChanged", id)

\* sendToClient was called for connection c with a message of this type and
\* site in the last step
Called(c, type, siteId) ==
  \E k \in 1..Len(sent) :
    sent[k].to = c /\ sent[k].type = type /\ sent[k].siteId = siteId

\* C27: a siteStatusChanged, siteCreated, siteBuilt, siteServing, siteStopped or
\* siteDeleted event is passed to sendToClient for every connection of the
\* client set, whatever its subscription set holds, and ws.send is called for
\* each of them whose socket is open.
C27_BroadcastToEveryConnection ==
  \A type \in BroadcastTypes, id \in Ids :
    Published(type, id) =>
      \A c \in clients :
        /\ Called(c, type, id)
        /\ conn[c].state = "open" => SentTo(c, type, id)

\* a siteServing event went to two connections, one with an empty subscription
\* set and one subscribed to another site only
C27_Witness ==
  \E id \in Ids, c \in clients, b \in clients :
    /\ Published("siteServing", id)
    /\ conn[c].subscribedSites = {}
    /\ conn[b].subscribedSites # {} /\ id \notin conn[b].subscribedSites
    /\ SentTo(c, "siteServing", id) /\ SentTo(b, "siteServing", id)

\* how often the instance of websocket.ts emitted the event in the last step
NumPublished(type, siteId) ==
  Cardinality({i \in 1..Len(emitted) :
                 emitted[i].type = type /\ emitted[i].id = siteId
                 /\ emitted[i].mgr = WsManager})

\* how often sendToClient was called for the connection with the event
NumCalled(c, type, siteId) ==
  Cardinality({k \in 1..Len(sent) :
                 sent[k].to = c /\ sent[k].type = type /\ sent[k].siteId = siteId})

\* the filter of the broadcast of this event lets the connection through
PassesFilter(c, type, siteId) ==
  type = "fileChanged" => siteId \in conn[c].subscribedSites

\* C28: when a send throws during a broadcast, sendToClient is still called
\* exactly once per published event for every connection of the client set that
\* passes the filter: the broadcast goes on and nothing is sent again.
C28_FailedSendDoesNotStopBroadcast ==
  (\E k \in 1..Len(sent) : sent[k].out = "threw") =>
    \A type \in BroadcastTypes \cup {"fileChanged"}, id \in Ids, c \in clients :
      (Published(type, id) /\ PassesFilter(c, type, id)) =>
        NumCalled(c, type, id) = NumPublished(type, id)

\* one event was broadcast to two connections: the send to the first threw, the
\* second was sent the event all the same, and there was no third send
C28_Witness ==
  /\ Len(sent) = 2
  /\ sent[1].out = "threw" /\ sent[2].out = "sent"
  /\ sent[1].to # sent[2].to
  /\ sent[1].type = sent[2].type /\ sent[1].siteId = sent[2].siteId
  /\ Published(sent[1].type, sent[1].siteId)

\* C29: the step that handles a new connection calls sendToClient for it
\* exactly twice, first with the connected acknowledgment that carries its
\* client id, then with the list of the sites of the registry as it is at that
\* moment; the connection is alive and in the client set with an empty
\* subscription set; and nothing is ever sent to a socket before that step.
C29_ConnectSendsAckThenSnapshot ==
  /\ received.type = "connection" =>
       LET c == received.c IN
       /\ Len(sent) = 2
       /\ sent[1].to = c /\ sent[1].type = "connected" /\ sent[1].data = {c}
       /\ sent[1].out # "skipped"
       /\ sent[2].to = c /\ sent[2].type = "sites"
       /\ sent[2].data = getAllSites(WsManager)
       /\ sent[2].out # "skipped"
       /\ c \in clients /\ conn[c].isAlive /\ conn[c].subscribedSites = {}
  /\ \A k \in 1..Len(sent) : conn[sent[k].to].state # "none"
  /\ \A c \in Conns : conn[c].state = "none" => c \notin clients

\* a client connected while the registry held a site that was being served,
\* and was sent the acknowledgment and then that site
C29_Witness ==
  /\ received.type = "connection"
  /\ Len(sent) = 2 /\ sent[1].out = "sent" /\ sent[2].out = "sent"
  /\ \E r \in sent[2].data : r.status = "serving"
  /\ clients # {received.c}

\* the step handles a message of this type with site id S from connection c
Handles(type, c, siteId) ==
  received' = Input(type, c, siteId) /\ siteId # NoSiteId

\* the step calls sendToClient once, with this acknowledgment; it reaches ws.send
\* unless the server itself has closed the socket (cleanup) before the message
\* arrived
Acknowledged(type, c, siteId) ==
  /\ Len(sent') = 1
  /\ sent'[1].to = c /\ sent'[1].type = type /\ sent'[1].siteId = siteId
  /\ conn[c].state = "open" => sent'[1].out # "skipped"

SubscriptionsStep ==
  \A c \in Conns, id \in Ids :
    LET before == conn[c].subscribedSites
        after == conn'[c].subscribedSites
        others == \A b \in Conns \ {c} :
                    conn'[b].subscribedSites = conn[b].subscribedSites
    IN /\ Handles("subscribe", c, id) =>
            /\ id \in after /\ after \ {id} = before \ {id}
            /\ id \in before => after = before
            /\ Acknowledged("subscribed", c, id)
            /\ others
       /\ Handles("unsubscribe", c, id) =>
            /\ id \notin after /\ after = before \ {id}
            /\ id \notin before => after = before
            /\ Acknowledged("unsubscribed", c, id)
            /\ others

\* C30: a subscribe message with site id S puts S into the sender's subscription
\* set and is acknowledged with subscribed, an unsubscribe message takes S out
\* and is acknowledged with unsubscribed (the acknowledgment reaches ws.send on
\* every socket the server has not closed itself); neither changes any other member or
\* any other connection's set, a repeated one changes nothing, and unsubscribe
\* after subscribe leaves the set as it was without S.
C30_SubscribeUnsubscribe == [][SubscriptionsStep]_vars

\* an unsubscribe for one site has been acknowledged and the connection is
\* still subscribed to the other site
C30_Witness ==
  /\ received.type = "unsubscribe" /\ received.siteId # NoSiteId
  /\ Len(sent) = 1 /\ sent[1].type = "unsubscribed" /\ sent[1].out = "sent"
  /\ conn[received.c].subscribedSites = Ids \ {received.siteId}

\* the step handles a message from connection c that has an unknown type or
\* cannot be parsed
HandlesBad(c) == received'.c = c /\ received'.type \in {"other", "invalid"}

\* the one call of sendToClient of the step: the error message of the branch,
\* for the sender
ErrorCalled(c) ==
  /\ Len(sent') = 1
  /\ sent'[1].to = c /\ sent'[1].type = "error"
  /\ sent'[1].data = IF received'.type = "other"
                     THEN {"Unknown message type"}
                     ELSE {"Invalid message format"}

\* the sender is in the client set before and after, and its socket, liveness
\* flag and subscription set are as before
SenderKept(c) ==
  /\ c \in clients /\ c \in clients'
  /\ conn'[c] = conn[c]

ErrorAnswerStep ==
  \A c \in Conns :
    HandlesBad(c) =>
      /\ ErrorCalled(c)
      /\ conn[c].state = "open" => sent'[1].out # "skipped"
      /\ SenderKept(c)

ErrorAlwaysSentStep ==
  \A c \in Conns :
    HandlesBad(c) =>
      /\ ErrorCalled(c)
      /\ sent'[1].out # "skipped"
      /\ SenderKept(c)

\* C31, as stated: a message with an unrecognized type, or one that cannot be
\* parsed, is answered with one error message handed to ws.send, to the sender
\* only, whatever the state of the sender's socket; the sender stays in the
\* client set, and its socket, liveness flag and subscription set are as before.
C31_BadMessageAlwaysAnswered == [][ErrorAlwaysSentStep]_vars

\* C31, amended: a message with an unrecognized type, or one that cannot be
\* parsed, makes one call of sendToClient with the error message, for the sender
\* only, and the message is handed to ws.send when the sender's socket is open;
\* on a socket closed by cleanup, whose 'close' event has not come, the error
\* message is dropped.  In both cases the sender stays in the client set, and
\* its socket, liveness flag and subscription set are as before.
C31_BadMessageAnsweredWithError == [][ErrorAnswerStep]_vars

\* a subscribed connection, marked not alive by a heartbeat tick, has sent a
\* message that cannot be parsed and was answered with an error
C31_Witness ==
  /\ received.type = "invalid"
  /\ Len(sent) = 1 /\ sent[1].type = "error" /\ sent[1].out = "sent"
  /\ received.c \in clients
  /\ ~conn[received.c].isAlive
  /\ conn[received.c].subscribedSites # {}

\* the step handles a client message from connection c
HandlesMessage(c) == received'.c = c /\ received'.type \in MessageTypes

MessageFrameStep ==
  \A c \in Conns :
    HandlesMessage(c) =>
      /\ \A b \in Conns \ {c} :
           /\ conn'[b] = conn[b]
           /\ (b \in clients') = (b \in clients)
           /\ \A k \in 1..Len(sent') : sent'[k].to # b
      /\ UNCHANGED <<sites, obj, procs, watchers, disk>>

\* C32: handling a message from connection c, well-formed or not, leaves the
\* socket, liveness flag, subscription set and membership of every other
\* connection as they were and sends nothing to any of them.
C32_MessageTouchesOnlySender == [][MessageFrameStep]_vars

\* a message of unknown type from one connection was answered while another
\* open connection, subscribed to a site, was in the client set
C32_Witness ==
  /\ received.type = "other"
  /\ Len(sent) = 1 /\ sent[1].to = received.c
  /\ \E b \in clients \ {received.c} :
       conn[b].state = "open" /\ conn[b].subscribedSites # {}

\* the types of the messages that carry an event of the JekyllManager
EventTypes == BroadcastTypes \cup {"fileChanged"}

\* C33: there is no replay: a message that carries an event is handed to
\* sendToClient only in the step in which the event is published, only for a
\* connection that is in the client set in that step, and not more often than
\* the event was published; the step that handles a new connection sends the
\* acknowledgment and the sites list and no event.
C33_NoReplay ==
  \A k \in 1..Len(sent) :
    sent[k].type \in EventTypes =>
      /\ Published(sent[k].type, sent[k].siteId)
      /\ sent[k].to \in clients
      /\ received.type # "connection"
      /\ NumCalled(sent[k].to, sent[k].type, sent[k].siteId)
           <= NumPublished(sent[k].type, sent[k].siteId)

\* a client connected after the events of a site's creation had been sent to
\* an earlier connection, and was sent the acknowledgment and the sites list only
C33_Witness ==
  /\ received.type = "connection"
  /\ clients # {received.c}
  /\ \E r \in getAllSites(WsManager) : r.status = "ready"
  /\ Len(sent) = 2
  /\ \A k \in 1..Len(sent) : sent[k].type \notin EventTypes

HeartbeatSparesAnswering ==
  received'.type = "heartbeat" =>
    \A c \in clients :
      ticks[c] = 0 => c \in clients' /\ conn'[c].state = conn[c].state

\* C40: a tick of the heartbeat does not remove or terminate a connection that
\* has sent a pong, or has connected, since the tick before.
C40_AnsweringConnectionKept == [][HeartbeatSparesAnswering]_vars

\* at one tick a connection that had connected, or sent a pong, since the tick
\* before was kept while a silent one was removed
C40_Witness ==
  /\ received.type = "heartbeat"
  /\ \E c \in clients, b \in Conns \ clients :
       /\ ticks[c] = 1 /\ conn[c].state = "open"
       /\ ticks[b] = 2

\* the step completes the createSite call that inserted the site
CreateReturns(id, res) ==
  returned'.op = "create" /\ returned'.id = id /\ returned'.res = res

EmitsIn(events, type, id) ==
  \E i \in 1..Len(events) : events[i].type = type /\ events[i].id = id

CreateLifecycleStep ==
  \A id \in Ids :
    LET m == ApiManager IN
    \* a record enters the registry in 'creating'
    /\ (id \notin sites[m] /\ id \in sites'[m]) => obj'[id].status = "creating"
    \* it leaves 'creating' only when its createSite call completes, for
    \* 'ready' on success and 'error' on failure
    /\ (id \in sites[m] /\ obj[id].status = "creating"
          /\ (id \notin sites'[m] \/ obj'[id].status # "creating")) =>
         /\ id \in sites'[m]
         /\ \/ CreateReturns(id, "ok") /\ obj'[id].status = "ready"
            \/ CreateReturns(id, "error") /\ obj'[id].status = "error"
    \* and never comes back to it
    /\ (id \in sites[m] /\ obj[id].status # "creating") =>
         obj'[id].status # "creating"
    \* siteCreated goes with the step from 'creating' to 'ready' and with no other
    /\ EmitsIn(emitted', "siteCreated", id) <=>
         (obj[id].status = "creating" /\ obj'[id].status = "ready"
          /\ CreateReturns(id, "ok"))
    \* a failed create throws and leaves the record in the registry in 'error'
    /\ CreateReturns(id, "error") =>
         id \in sites'[m] /\ obj'[id].status = "error"

\* C34: a site inserted by createSite starts in 'creating' and leaves it exactly
\* once, when the call completes: for 'ready' with siteCreated emitted when the
\* files were written, for 'error' with the error thrown and the record kept
\* when they were not; siteCreated is emitted in no other step.
C34_CreateLeavesCreatingOnce == [][CreateLifecycleStep]_vars

\* the request has ended: generateAndParse returned a parsed structure or threw
GenEnded == gen.state \in {"returned", "failed"}

GenBounded ==
  /\ gen.invoked <= maxRetries
  /\ gen.invoked = Len(gen.log) + (IF gen.state = "waiting" THEN 1 ELSE 0)
  /\ gen.state = "returned" => gen.log[Len(gen.log)] = "json"
  /\ gen.state = "failed" => \A i \in 1..Len(gen.log) : gen.log[i] # "json"

\* C35: one request calls the model at most maxRetries (3) times, repairs after
\* parse errors and repeats after generation errors counted together, it ends
\* with a parsed structure only if the last answer parsed and with a failure
\* only if none did, and once every call of the model is answered it ends.
C35_GenerationTerminates ==
  /\ []GenBounded
  /\ (gen.state = "waiting") ~> GenEnded

\* a request failed after three calls of the model: a parse error, a timeout
\* and another parse error
C35_Witness ==
  /\ gen.state = "failed"
  /\ gen.invoked = maxRetries
  /\ gen.log = <<"syntaxError", "timeout", "syntaxError">>

\* the entry is an element of the array
In(e, a) == \E i \in 1..Len(a) : a[i] = e

\* C36: for every parsed structure, also one whose list fields are missing or
\* empty, the structure validateAndCleanStructure returns has at least one
\* layout and a page named index.html or index.md, and holds every layout and
\* every page the parsed structure had.
C36_CleanedStructureComplete ==
  struct.called =>
    /\ Len(struct.output.layouts) >= 1
    /\ HasIndex(struct.output.pages)
    /\ \A i \in 1..Len(OrEmpty(struct.input.layouts)) :
         In(struct.input.layouts.items[i], struct.output.layouts)
    /\ \A i \in 1..Len(OrEmpty(struct.input.pages)) :
         In(struct.input.pages.items[i], struct.output.pages)

\* C37: after a DELETE on the files endpoint of a site that answers success
\* for a safe path that names no critical file, the file is no longer in the
\* site's directory.  Under SpecRoutes no DELETE answers success
\* (FilesAnswersNotFound), so no reachable state tests the consequent.
C37_DeletedFileIsGone ==
  (answer.method = "DELETE" /\ answer.status = 200) =>
    answer.path \notin written[obj[answer.id].name]

\* C38: in every state a registered site has a running preview process only
\* if its status is serving.
C38_PreviewOnlyWhileServing ==
  \A id \in Ids :
    (Registered(id) /\ Procs(id) # {}) => obj[id].status = "serving"

\* the events of a site that lives
LifeEvents ==
  {"siteStatusChanged", "siteBuilt", "siteServing", "siteStopped", "fileChanged"}

\* C39: for every site, no siteStatusChanged, siteBuilt, siteServing,
\* siteStopped or fileChanged event of the site is emitted after its
\* siteDeleted.
C39_NoEventAfterDeleted ==
  \A i \in 1..Len(emitted) :
    emitted[i].id \in deleted => emitted[i].type \notin LifeEvents
====
